---- MODULE Spec2Model ----
(***************************************************************************)
(* Model of the Intersvyaz integration core:                               *)
(*   - IntersvyazApiClient (api.py): the two tokens, CRM authorization     *)
(*     and the door-open command;                                          *)
(*   - FaceRecognitionManager (face_manager.py): cooldown-gated opening;   *)
(*   - DoorBackgroundProcessor (background.py): the single-flight cycle.   *)
(*   - async_get_relays (api.py), _sort_relays (__init__.py) and           *)
(*     _match_known_faces (face_manager.py) on drawn inputs;               *)
(*   - the list of known faces (face_manager.py), the door button          *)
(*     (button.py), the open callable of a door and the open_door service  *)
(*     (__init__.py).                                                      *)
(* Each component has its own specification; the variables of the other    *)
(* components stay at their constructed values.                            *)
(***************************************************************************)
EXTENDS Integers, Sequences, FiniteSets, TLC

VARIABLES
    now,            \* wall clock read by datetime.now(timezone.utc), in seconds
    mobile_token,   \* IntersvyazApiClient._mobile_token
    crm_token,      \* IntersvyazApiClient._crm_token
    call,           \* the API operations in flight, one slot per caller
    mono,           \* time.monotonic(), in seconds
    known_faces,    \* FaceRecognitionManager._known_faces, of each manager made
    library_available, \* FaceRecognitionManager._library_available
    door_cooldown,  \* FaceRecognitionManager._door_cooldown, of each manager
    fp,             \* async_process_image invocations, one slot per caller
    match_log,      \* the frames showing a known face that were handed in
    selected_uids,  \* DoorBackgroundProcessor._selected_uids
    unsubscribe,    \* DoorBackgroundProcessor._unsubscribe is set
    lock,           \* DoorBackgroundProcessor._lock is held
    task,           \* invocations of _async_process_selected
    doors,          \* uids of the video-capable doors in hass.data
    manager,        \* the face manager hass.data holds, or None
    skipped,        \* a cycle request was dropped since the last cycle start
    torn_down,      \* async_unload_entry has popped the store, no setup since
    exp_in,         \* input of the expiry predicate: <<kind, access_end, now>>
    exp_out,        \* its result
    relay,          \* the async_get_relays invocation
    sort_in,        \* input of _sort_relays
    sort_out,       \* its result
    match_in,       \* input of _match_known_faces: <<encodings, known faces>>
    match_out,      \* its result
    face_lock,      \* FaceRecognitionManager._lock is held, of each manager
    face_op,        \* invocations of async_add_known_face / async_remove_known_face
    stored_faces,   \* entry.options[CONF_KNOWN_FACES]
    button,         \* IntersvyazDoorOpenButton: its status fields and reset task
    press,          \* invocations of async_press
    opener,         \* invocations of a door's open callable
    entry_data,     \* entry.data: the persisted tokens
    entry_loaded,   \* async_unload_entry has not been called
    svc_in,         \* input of handle_open_door
    svc_out,        \* its outcome
    build_in,       \* input of _build_door_entry_payload: <<relay, index>>
    build_out,      \* its result
    door_store,     \* hass.data[DOMAIN][entry_id]: the door list, the default callable
    door_config,    \* entry.data: the stored configuration of the door
    door_job        \* async_setup_entry / _async_refresh_door_links in flight

apiVars == <<now, mobile_token, crm_token, call>>
faceVars == <<mono, known_faces, library_available, door_cooldown, fp,
              match_log>>
bgVars == <<selected_uids, unsubscribe, lock, task, doors, manager, skipped,
            torn_down>>
bgRest == <<selected_uids, unsubscribe, lock, task, doors, skipped, torn_down>>
expVars == <<exp_in, exp_out>>
relVars == <<relay, sort_in, sort_out, match_in, match_out>>
kfVars == <<face_lock, face_op, stored_faces>>
btnVars == <<button, press>>
callVars == <<opener, entry_data, entry_loaded>>
svcVars == <<svc_in, svc_out>>
doorVars == <<build_in, build_out, door_store, door_config, door_job>>
extVars == <<kfVars, btnVars, callVars, svcVars, doorVars>>
vars == <<apiVars, faceVars, bgVars, expVars, relVars, extVars>>

-----------------------------------------------------------------------------
(* Optional values: None is Python's None, Some(x) a present value.        *)
None == <<>>
Some(x) == <<x>>
IsNone(o) == o = <<>>
Val(o) == o[1]

\* Bounds of the model.
MaxNow == 2

\* const.py: TOKEN_EXPIRATION_MARGIN
TOKEN_EXPIRATION_MARGIN == 60

Callers == {"a", "b"}
MobileTokens == {"m1"}
CrmTokens == {"c1", "c2"}

\* ACCESS_END values of token payloads: absent, or an instant whose safe end
\* (access_end - margin) falls inside the modelled time window.
AccessEnds ==
    {None} \cup {Some(TOKEN_EXPIRATION_MARGIN + k) : k \in 1..MaxNow}

-----------------------------------------------------------------------------
(* api.py: the expiry predicate of both token classes.                     *)

\* a mutant: the margin is added instead of subtracted
MobileIsExpiredMarginAdded(access_end, t) ==
    IF IsNone(access_end) THEN FALSE
    ELSE t >= Val(access_end) + TOKEN_EXPIRATION_MARGIN

\* MobileToken.is_expired
MobileIsExpired(access_end, t) ==
    IF IsNone(access_end) THEN FALSE
    ELSE LET safe_end == Val(access_end) - TOKEN_EXPIRATION_MARGIN
         IN  t >= safe_end

\* CrmToken.is_expired
CrmIsExpired(access_end, t) ==
    IF IsNone(access_end) THEN FALSE
    ELSE LET safe_end == Val(access_end) - TOKEN_EXPIRATION_MARGIN
         IN  t >= safe_end

-----------------------------------------------------------------------------
(* api.py: token payloads and their parsing.                               *)

\* str(payload.get("TOKEN")): a missing TOKEN becomes the string "None"
PyStr(o) == IF IsNone(o) THEN "None" ELSE Val(o)

\* Payloads of get-token / auth-lk answers and of stored configuration.
\* user_id: "int" (parses), "bad" (not a number), "absent".
Payloads(tokens) ==
    [TOKEN : {None, Some("")} \cup {Some(t) : t \in tokens},
     USER_ID : {"int", "bad", "absent"},
     ACCESS_END : AccessEnds]

\* Payloads handed to _parse_mobile_token: USER_ID and PROFILE_ID are both
\* converted by _safe_int.
MobilePayloads(tokens) ==
    [TOKEN : {None, Some("")} \cup {Some(t) : t \in tokens},
     USER_ID : {"int", "bad", "absent"},
     PROFILE_ID : {"int", "bad", "absent"},
     ACCESS_END : AccessEnds]

\* _parse_mobile_token: None stands for the raised IntersvyazApiError
ParseMobileToken(payload) ==
    LET token == PyStr(payload.TOKEN)
    IN  IF token = "" THEN None
        ELSE IF payload.USER_ID # "int" THEN None
        ELSE IF payload.PROFILE_ID # "int" THEN None
        ELSE Some([token |-> token, access_end |-> payload.ACCESS_END])

\* _parse_crm_token: USER_ID is converted only when the key is present
ParseCrmToken(payload) ==
    LET token == PyStr(payload.TOKEN)
    IN  IF token = "" THEN None
        ELSE IF payload.USER_ID = "bad" THEN None
        ELSE Some([token |-> token, access_end |-> payload.ACCESS_END])

\* a mutant: a token without access_end counts as expired
EnsureMobileTokenRequiresExpiry(mt, t) ==
    IF IsNone(mt) THEN FALSE
    ELSE IF IsNone(Val(mt).access_end) THEN FALSE
    ELSE ~MobileIsExpired(Val(mt).access_end, t)

\* a mutant: an expired mobile token passes the guard
EnsureMobileTokenIgnoresExpiry(mt, t) == ~IsNone(mt)

\* _ensure_mobile_token: TRUE when it returns, FALSE when it raises
EnsureMobileToken(mt, t) ==
    IF IsNone(mt) THEN FALSE
    ELSE IF MobileIsExpired(Val(mt).access_end, t) THEN FALSE
    ELSE TRUE

\* a mutant: only an absent CRM token triggers the authorization
CrmTokenUsableIgnoresExpiry(ct, t) == ~IsNone(ct)

\* _ensure_crm_token, the condition of its early return
CrmTokenUsable(ct, t) ==
    ~IsNone(ct) /\ ~CrmIsExpired(Val(ct).access_end, t)

\* a mutant: the header is always built from the mobile token
BuildCrmHeadersMobileOnly(include_crm_bearer, include_mobile_bearer, mt, ct) ==
    IF ~IsNone(mt) THEN Some(Val(mt).token) ELSE None

\* a mutant: the CRM token overrides the header whenever one is stored
BuildCrmHeadersCrmFirst(include_crm_bearer, include_mobile_bearer, mt, ct) ==
    IF ~IsNone(ct) THEN Some(Val(ct).token)
    ELSE IF include_mobile_bearer /\ ~IsNone(mt) THEN Some(Val(mt).token)
    ELSE None

\* _build_crm_headers: the Authorization header (None when not set)
BuildCrmHeaders(include_crm_bearer, include_mobile_bearer, mt, ct) ==
    LET h1 == IF include_mobile_bearer /\ ~IsNone(mt)
              THEN Some(Val(mt).token) ELSE None
    IN  IF include_crm_bearer /\ ~IsNone(ct) THEN Some(Val(ct).token) ELSE h1

-----------------------------------------------------------------------------
(* api.py: IntersvyazApiClient, the operations that use the CRM.           *)

\* What an observer of the client sees of a stored token at time t: it is
\* present and the clock has not reached access_end - margin.
ObservedValid(tok, t) ==
    /\ ~IsNone(tok)
    /\ \/ IsNone(Val(tok).access_end)
       \/ t < Val(Val(tok).access_end) - TOKEN_EXPIRATION_MARGIN

TokenString(tok) == IF IsNone(tok) THEN None ELSE Some(Val(tok).token)

\* What came back for a request: a failure of the transport or of the
\* server by its name, "204", or "json" with the decoded payload.
Answer(cause, payload) == [cause |-> cause, payload |-> payload]
NoAnswer == Answer("none", None)

\* a mutant: the timeout is not caught and leaves _request as it is
RequestErrorTimeoutUncaught(cause) ==
    CASE cause = "neterr" -> "network"
      [] cause = "timeout" -> "timeout_error"
      [] cause \in {"401", "500", "http_error"} -> "http"
      [] cause = "bad_json" -> "json"
      [] OTHER -> "none"

\* _request and _handle_response: the IntersvyazApiError raised for an
\* answer ("none": the decoded payload is returned).  ClientError and
\* asyncio.TimeoutError are caught by the same clause.
RequestError(cause) ==
    CASE cause \in {"neterr", "timeout"} -> "network"
      [] cause \in {"401", "500", "http_error"} -> "http"
      [] cause = "bad_json" -> "json"
      [] OTHER -> "none"

\* The endpoint of the open request: CRM_OPEN_DOOR_ENDPOINT_TEMPLATE filled
\* with mac and door_id.
OpenEndpoint == "/api/open/{mac}/{door_id}"
AuthEndpoint == "/api/auth-lk"
OpenLinks == {"https://relay/open"}

\* A request handed to the HTTP session: its endpoint (url), its JSON
\* `token` field (body), its Authorization header (bearer), and what the
\* client stored at the moment the request was built.
Request(kind, url, body, bearer, ct) ==
    [kind |-> kind, url |-> url, status |-> "pending", body |-> body,
     bearer |-> bearer,
     stored_mobile |-> TokenString(mobile_token),
     stored_crm |-> TokenString(ct),
     mobile_ok |-> ObservedValid(mobile_token, now),
     answer |-> NoAnswer, raised |-> "none"]

\* An answered request keeps its kind, its endpoint and its outcome.
Archived(r, status, answer) ==
    [kind |-> r.kind, url |-> r.url, status |-> status, body |-> None,
     bearer |-> None, stored_mobile |-> None, stored_crm |-> None,
     mobile_ok |-> r.mobile_ok, answer |-> answer,
     raised |-> RequestError(answer.cause)]

IdleCall ==
    [op |-> "none", pc |-> "idle", result |-> "none", log |-> <<>>,
     stale |-> FALSE, mob_ok |-> FALSE, link |-> None, issued |-> None]

\* A call at its entry; stale: the stored CRM token is absent or expired,
\* mob_ok: the stored mobile token is present and not expired.
StartOf(op) ==
    [op |-> op, pc |-> "idle", result |-> "none", log |-> <<>>,
     stale |-> ~ObservedValid(crm_token, now),
     mob_ok |-> ObservedValid(mobile_token, now),
     link |-> None, issued |-> None]

\* the last request of a log gets its answer
Answered(log, status, answer) ==
    [log EXCEPT ![Len(log)] = Archived(log[Len(log)], status, answer)]

\* the operation raises IntersvyazApiError to its caller
Raised(c) == [c EXCEPT !.pc = "idle", !.result = "error"]

\* the operation returns normally
Returned(c) == [c EXCEPT !.pc = "idle", !.result = "ok"]

\* async_authenticate_crm up to its await: the guard, then the POST
\* /api/auth-lk with the mobile token in the body and in the header
SendCrmAuth(c) ==
    IF ~EnsureMobileToken(mobile_token, now) THEN Raised(c)
    ELSE [c EXCEPT
            !.pc = "crm_auth",
            !.log = Append(@, Request("auth", AuthEndpoint,
                        Some(Val(mobile_token).token),
                        BuildCrmHeaders(FALSE, TRUE, mobile_token, crm_token),
                        crm_token))]

\* a mutant: the headers of the open request are built from the CRM token
\* that was stored when the call was entered
SendOpenStaleToken(c, ct) ==
    [c EXCEPT
        !.pc = "open",
        !.log = Append(@, Request("open", OpenEndpoint, None,
                        BuildCrmHeaders(TRUE, FALSE, mobile_token, crm_token),
                        crm_token))]

\* async_open_door after _ensure_crm_token: the GET /api/open/{mac}/{door_id}
\* with the headers built from the CRM token `ct` stored at that moment
SendOpen(c, ct) ==
    [c EXCEPT
        !.pc = "open",
        !.log = Append(@, Request("open", OpenEndpoint, None,
                        BuildCrmHeaders(TRUE, FALSE, mobile_token, ct), ct))]

\* a mutant: a rejected open request triggers a reauthorization and a retry
OpenRejectedRetries(c) ==
    [c EXCEPT
        !.pc = "crm_auth",
        !.log = Append(@, Request("auth", AuthEndpoint,
                        TokenString(mobile_token),
                        BuildCrmHeaders(FALSE, TRUE, mobile_token, crm_token),
                        crm_token))]

\* _handle_response raises for a status >= 400, _request for a network error
\* or a timeout: async_open_door lets the error through to its caller
OpenRejected(c) == Raised(c)

\* async_open_door, first part (runs without suspension up to the first await)
OpenDoorStart(p) ==
    /\ call[p].pc = "idle"
    /\ call' = [call EXCEPT ![p] =
            IF CrmTokenUsable(crm_token, now)
            THEN SendOpen(StartOf("open"), crm_token)
            ELSE SendCrmAuth(StartOf("open"))]
    /\ UNCHANGED <<now, mobile_token, crm_token>>
    /\ UNCHANGED <<faceVars, bgVars, expVars, relVars, extVars>>

\* async_authenticate_crm called directly (config flow, tests)
AuthenticateCrmStart(p) ==
    /\ call[p].pc = "idle"
    /\ call' = [call EXCEPT ![p] = SendCrmAuth(StartOf("auth"))]
    /\ UNCHANGED <<now, mobile_token, crm_token>>
    /\ UNCHANGED <<faceVars, bgVars, expVars, relVars, extVars>>

\* Answers of the CRM to POST /api/auth-lk as _request sees them:
\* a network error, a timeout, a status >= 400, a 2xx body that is not JSON,
\* or a 2xx JSON payload (an empty body is the payload without any key).
AuthFailures == {"neterr", "timeout", "http_error", "bad_json"}
AuthAnswers ==
    {Answer(f, None) : f \in AuthFailures}
    \cup {Answer("json", Some(payload)) : payload \in Payloads(CrmTokens)}

\* a mutant: the stored CRM token is dropped when the authorization fails
StoreCrmTokenDropsOnFailure(ct, parsed) == parsed

\* async_authenticate_crm, `token = self._parse_crm_token(response)` and
\* `self._crm_token = token`: the assignment is reached only when _request_crm
\* and _parse_crm_token have returned (parsed is None when one of them raised)
StoreCrmToken(ct, parsed) == IF IsNone(parsed) THEN ct ELSE parsed

\* the rest of async_authenticate_crm, and of async_open_door behind it
CrmAuthResponse(p) ==
    /\ call[p].pc = "crm_auth"
    /\ \E answer \in AuthAnswers :
          LET parsed == IF answer.cause = "json"
                        THEN ParseCrmToken(Val(answer.payload)) ELSE None
              c == call[p]
          IN  /\ crm_token' = StoreCrmToken(crm_token, parsed)
              /\ call' = [call EXCEPT ![p] =
                    IF IsNone(parsed)
                    THEN Raised([c EXCEPT
                                    !.log = Answered(@, "failed", answer)])
                    ELSE LET c1 == [c EXCEPT
                                      !.log = Answered(@, "ok", answer),
                                      !.issued = parsed]
                         IN  IF c.op = "auth" THEN Returned(c1)
                             ELSE SendOpen(c1, parsed)]
    /\ UNCHANGED <<now, mobile_token>>
    /\ UNCHANGED <<faceVars, bgVars, expVars, relVars, extVars>>

\* Answers of the CRM to the open request: 204, or an error.
OpenFailures == {"401", "500", "neterr", "timeout"}

\* the rest of async_open_door
OpenResponse(p) ==
    /\ call[p].pc = "open"
    /\ \/ call' = [call EXCEPT ![p] =
                Returned([call[p] EXCEPT
                            !.log = Answered(@, "204", Answer("204", None))])]
       \/ \E f \in OpenFailures :
            call' = [call EXCEPT ![p] =
                OpenRejected([call[p] EXCEPT !.log =
                    Answered(@, IF f = "401" THEN "401" ELSE "failed",
                             Answer(f, None))])]
    /\ UNCHANGED <<now, mobile_token, crm_token>>
    /\ UNCHANGED <<faceVars, bgVars, expVars, relVars, extVars>>

\* async_open_door(mac, door_id, open_link=link), as the open callable of a
\* door calls it: the method has no parameter open_link, the call raises
\* TypeError before its body runs
OpenDoorWithLink(p, link) ==
    /\ call[p].pc = "idle"
    /\ call' = [call EXCEPT ![p] =
            [StartOf("open_link") EXCEPT
                !.link = Some(link), !.result = "type_error"]]
    /\ UNCHANGED <<now, mobile_token, crm_token>>
    /\ UNCHANGED <<faceVars, bgVars, expVars, relVars, extVars>>

\* set_mobile_token: restore the mobile token from the stored configuration
SetMobileToken ==
    /\ \E payload \in MobilePayloads(MobileTokens) :
          mobile_token' = IF IsNone(ParseMobileToken(payload))
                          THEN mobile_token ELSE ParseMobileToken(payload)
    /\ UNCHANGED <<now, crm_token, call>>
    /\ UNCHANGED <<faceVars, bgVars, expVars, relVars, extVars>>

\* async_get_mobile_token: the token is stored when the answer parses
AsyncGetMobileToken ==
    /\ \/ UNCHANGED mobile_token
       \/ \E payload \in MobilePayloads(MobileTokens) :
             /\ ~IsNone(ParseMobileToken(payload))
             /\ mobile_token' = ParseMobileToken(payload)
    /\ UNCHANGED <<now, crm_token, call>>
    /\ UNCHANGED <<faceVars, bgVars, expVars, relVars, extVars>>

\* set_crm_token: restore the CRM token from the stored configuration
SetCrmToken ==
    /\ \E payload \in Payloads(CrmTokens) :
          crm_token' = IF IsNone(ParseCrmToken(payload))
                       THEN crm_token ELSE ParseCrmToken(payload)
    /\ UNCHANGED <<now, mobile_token, call>>
    /\ UNCHANGED <<faceVars, bgVars, expVars, relVars, extVars>>

\* the wall clock advances
Tick ==
    /\ now < MaxNow
    /\ now' = now + 1
    /\ UNCHANGED <<mobile_token, crm_token, call>>
    /\ UNCHANGED <<faceVars, bgVars, expVars, relVars, extVars>>

InitApi ==
    /\ now = 0
    /\ mobile_token = None
    /\ crm_token = None
    /\ call = [p \in Callers |-> IdleCall]

\* The callers whose operations run under Spec: one at a time.
Sequential == {"a"}

-----------------------------------------------------------------------------
(* face_manager.py: FaceRecognitionManager.                                *)

\* Bounds of the face manager's model: the range of the monotonic clock and
\* the number of frames showing a known face that are handed in.
MaxMono == 3
MaxMatches == 2

\* FaceRecognitionManager.__init__: cooldown_seconds and match_threshold
\* (distances are counted in tenths)
CooldownSeconds == 2
MatchThreshold == 5

Doors == {"d1", "d2"}
Names == {"alice", "bob"}
FaceCallers == {"camera", "background"}

\* The FaceRecognitionManager objects of the entry: the first one, and the
\* one _async_resolve_face_manager of the options flow makes when hass.data
\* holds none.  Each has its own list of known faces, lock and cooldowns.
Managers == {"m1", "m2"}
FirstManager == "m1"

\* a field of the managers made so far when only the first one is made
OfFirst(x) == [m \in {FirstManager} |-> x]
NoCooldown == [d \in Doors |-> None]

\* A frame: its bytes may be empty or not loadable as an image; on a
\* loadable one face_recognition.face_encodings may raise (fails);
\* otherwise it shows faces, each given by its distance to the vector of
\* every name.
Frame(empty, readable, encodings) ==
    [empty |-> empty, readable |-> readable, fails |-> FALSE,
     encodings |-> encodings]
EmptyImage == Frame(TRUE, FALSE, <<>>)
UnreadableImage == Frame(FALSE, FALSE, <<>>)
NoFaceImage == Frame(FALSE, TRUE, <<>>)
StrangerImage == Frame(FALSE, TRUE, <<("alice" :> 6 @@ "bob" :> 7)>>)
AliceImage == Frame(FALSE, TRUE, <<("alice" :> 4 @@ "bob" :> 6)>>)
FaultyImage == [Frame(FALSE, TRUE, <<>>) EXCEPT !.fails = TRUE]
Images ==
    {EmptyImage, UnreadableImage, NoFaceImage, StrangerImage, AliceImage,
     FaultyImage}

\* min(distance_values)
MinOf(seq) ==
    CHOOSE m \in {seq[i] : i \in 1..Len(seq)} :
        \A i \in 1..Len(seq) : m <= seq[i]

\* distance_values.index(best_distance)
IndexOf(seq, v) ==
    CHOOSE i \in 1..Len(seq) :
        seq[i] = v /\ \A j \in 1..(i - 1) : seq[j] # v

\* KnownFace(name=..., encoding=...)
KnownFace(name, encoding) == [name |-> name, encoding |-> encoding]
Encodings == {"v1", "v2"}

\* face_recognition.face_distance(known_vectors, encoding): a face of the
\* frame is given by its distance to the vector stored under each name
FaceDistance(known, encoding) ==
    [i \in 1..Len(known) |-> encoding[known[i].name]]

\* known_names = [face.name for face in self._known_faces]
NamesOf(faces) == [i \in 1..Len(faces) |-> faces[i].name]

\* a mutant: every accepted encoding replaces the best match so far
RECURSIVE MatchLoopLastWins(_, _, _, _, _, _)
MatchLoopLastWins(encodings, i, known_vectors, known_names, threshold, best) ==
    IF i > Len(encodings) THEN best
    ELSE LET distance_values == FaceDistance(known_vectors, encodings[i])
         IN  IF distance_values = <<>>
             THEN MatchLoopLastWins(encodings, i + 1, known_vectors,
                                    known_names, threshold, best)
             ELSE LET best_distance == MinOf(distance_values)
                      candidate ==
                          known_names[IndexOf(distance_values, best_distance)]
                  IN  IF best_distance <= threshold
                      THEN MatchLoopLastWins(encodings, i + 1, known_vectors,
                                             known_names, threshold,
                                             Some(<<candidate, best_distance>>))
                      ELSE MatchLoopLastWins(encodings, i + 1, known_vectors,
                                             known_names, threshold, best)

\* _match_known_faces, the loop over the encodings of the frame.
\* known_vectors: the faces whose vectors were read from self._known_faces;
\* known_names: the names read from it by the next statement;
\* best is None or Some(<<name, distance>>)
RECURSIVE MatchLoop(_, _, _, _, _, _)
MatchLoop(encodings, i, known_vectors, known_names, threshold, best) ==
    IF i > Len(encodings) THEN best
    ELSE LET distance_values == FaceDistance(known_vectors, encodings[i])
         IN  IF distance_values = <<>>
             THEN MatchLoop(encodings, i + 1, known_vectors, known_names,
                            threshold, best)
             ELSE LET best_distance == MinOf(distance_values)
                      candidate ==
                          known_names[IndexOf(distance_values, best_distance)]
                  IN  IF /\ best_distance <= threshold
                         /\ (IsNone(best) \/ best_distance < Val(best)[2])
                      THEN MatchLoop(encodings, i + 1, known_vectors,
                                     known_names, threshold,
                                     Some(<<candidate, best_distance>>))
                      ELSE MatchLoop(encodings, i + 1, known_vectors,
                                     known_names, threshold, best)

\* `candidate = known_names[best_index]` raises IndexError: a face of the
\* frame is within the threshold of a vector that has no name at its index
MatchRaises(encodings, known_vectors, known_names, threshold) ==
    \E i \in 1..Len(encodings) :
        LET distance_values == FaceDistance(known_vectors, encodings[i])
        IN  /\ distance_values # <<>>
            /\ MinOf(distance_values) <= threshold
            /\ IndexOf(distance_values, MinOf(distance_values))
                    > Len(known_names)

\* _match_known_faces on a loadable image, the list of known faces staying
\* as it is while the job runs: None or Some(name)
MatchKnownFaces(encodings, known, threshold) ==
    LET best == MatchLoop(encodings, 1, known, NamesOf(known), threshold, None)
    IN  IF IsNone(best) THEN None ELSE Some(Val(best)[1])

\* The executor job _match_known_faces for the two lists it has read.  how:
\* "match_error", a HomeAssistantError, which async_process_image catches;
\* "raised", another exception, which leaves async_process_image;
\* "no_match"; "match".
MatchJob(img, known_vectors, known_names) ==
    IF ~img.readable THEN "match_error"
    ELSE IF img.fails THEN "raised"
    ELSE IF MatchRaises(img.encodings, known_vectors, known_names,
                        MatchThreshold) THEN "raised"
    ELSE IF IsNone(MatchLoop(img.encodings, 1, known_vectors, known_names,
                             MatchThreshold, None)) THEN "no_match"
    ELSE "match"

\* self._door_cooldown.get(door_uid, 0)
DoorLastOpen(cd, d) ==
    IF d \notin DOMAIN cd THEN 0
    ELSE IF IsNone(cd[d]) THEN 0 ELSE Val(cd[d])

\* the cooldown test of async_process_image: TRUE when the call returns early
InCooldown(cd, d, t) == t - DoorLastOpen(cd, d) < CooldownSeconds

\* a mutant: the cooldown is consumed by a failed open as well
StampedAlways(cd, d, ok, t) == (d :> Some(t)) @@ cd

\* the end of async_process_image: the except branch returns, the normal
\* path stores time.monotonic()
Stamped(cd, d, ok, t) == IF ok THEN (d :> Some(t)) @@ cd ELSE cd

\* An invocation that is not running; exit: how its last run ended.  While
\* it runs: t, the time of the call; views, what the two reads of
\* self._known_faces in the executor job may have given: the pairs of a
\* value the list has had since the job was started and of that value or a
\* later one.
IdleFp ==
    [pc |-> "idle", self |-> FirstManager, door |-> "d1",
     image |-> EmptyImage, idx |-> 0, t |-> 0, views |-> {}, exit |-> "none"]
ReturnedFp(how) == [IdleFp EXCEPT !.exit = how]

\* self._known_faces of the manager m is given the value faces while
\* executor jobs of that manager read it
Observed(fpv, m, faces) ==
    [c \in DOMAIN fpv |->
        IF fpv[c].pc = "matching" /\ fpv[c].self = m
        THEN [fpv[c] EXCEPT !.views =
                @ \cup {<<v[1], faces>> : v \in @} \cup {<<faces, faces>>}]
        ELSE fpv[c]]

\* the frame shows a face known to the manager m: the matching would name
\* someone
ShowsKnownFace(m, img) ==
    /\ ~img.empty /\ img.readable /\ ~img.fails
    /\ ~IsNone(MatchKnownFaces(img.encodings, known_faces[m], MatchThreshold))

\* the frame shows a face that is within the threshold of the vector of some
\* name: it is matched when that name is known
MayMatch(img) ==
    /\ ~img.empty /\ img.readable /\ ~img.fails
    /\ \E i \in 1..Len(img.encodings), n \in Names :
          img.encodings[i][n] <= MatchThreshold

\* a frame showing a known face that was handed in: t, the time of the call;
\* at, the time the open callback was invoked for it
Logged(d, out) == [door |-> d, t |-> mono, out |-> out, at |-> None]

\* a mutant: the library test is missing
LibraryGateOpen(available) == TRUE

\* `if not self._library_available: return`, the condition to go on
LibraryGate(available) == available

\* the early returns of async_process_image, in their order ("none": the
\* call goes on to the matching)
EarlyReturn(m, d, img, callable_cb) ==
    IF ~LibraryGate(library_available) THEN "library"
    ELSE IF known_faces[m] = <<>> THEN "no_faces"
    ELSE IF img.empty THEN "empty"
    ELSE IF ~callable_cb THEN "no_callback"
    ELSE IF InCooldown(door_cooldown[m], d, mono) THEN "cooldown"
    ELSE "none"

\* async_process_image of the manager m up to its first await: the early
\* returns and the cooldown test.  callable_cb: an open callback was passed.
AsyncProcessImage(m, c, d, img, callable_cb) ==
    LET early == EarlyReturn(m, d, img, callable_cb)
        known == early \in {"cooldown", "none"} /\ ShowsKnownFace(m, img)
    IN  IF early = "none"
        THEN /\ fp' = [fp EXCEPT ![c] =
                     [pc |-> "matching", self |-> m, door |-> d,
                      image |-> img,
                      idx |-> IF known THEN Len(match_log) + 1 ELSE 0,
                      t |-> mono,
                      views |-> {<<known_faces[m], known_faces[m]>>},
                      exit |-> "none"]]
             /\ match_log' = IF known
                             THEN Append(match_log, Logged(d, "pending"))
                             ELSE match_log
        ELSE /\ fp' = [fp EXCEPT ![c] = ReturnedFp(early)]
             /\ match_log' = IF known
                             THEN Append(match_log, Logged(d, "cooldown"))
                             ELSE match_log

\* The executor job _match_known_faces has finished.  It ran in a thread of
\* its own and read self._known_faces twice, without a lock: the vectors
\* come from the first list of the view, the names from the second.
MatchRead(c, view) ==
    MatchJob(fp[c].image, view[1], NamesOf(view[2]))

\* async_process_image after the executor job: an error and no match end the
\* call, an exception of another class leaves it, a match invokes the open
\* callback
AfterMatch(c, how) ==
    LET logged == fp[c].idx > 0
    IN  IF how = "match"
        THEN /\ fp' = [fp EXCEPT ![c].pc = "opening", ![c].views = {},
                                 ![c].idx = IF logged THEN @
                                            ELSE Len(match_log) + 1]
             /\ match_log' =
                   IF logged
                   THEN [match_log EXCEPT ![fp[c].idx].out = "opening",
                                          ![fp[c].idx].at = Some(mono)]
                   ELSE Append(match_log,
                               [door |-> fp[c].door, t |-> fp[c].t,
                                out |-> "opening", at |-> Some(mono)])
        ELSE /\ fp' = [fp EXCEPT ![c] = ReturnedFp(how)]
             /\ match_log' =
                   IF logged
                   THEN [match_log EXCEPT ![fp[c].idx].out = how]
                   ELSE match_log

\* the end of async_process_image: the open callback has returned (ok) or
\* raised
AfterOpen(c, ok) ==
    /\ door_cooldown' =
          [door_cooldown EXCEPT ![fp[c].self] = Stamped(@, fp[c].door, ok, mono)]
    /\ match_log' = [match_log EXCEPT ![fp[c].idx].out =
                        IF ok THEN "opened" ELSE "open_failed"]
    /\ fp' = [fp EXCEPT ![c] =
                ReturnedFp(IF ok THEN "opened" ELSE "open_failed")]

\* a call of async_process_image of the manager m, up to its first await
ProcessImageStart(m, c, d, img, callable_cb) ==
    /\ fp[c].pc = "idle"
    /\ MayMatch(img) => Len(match_log) < MaxMatches
    /\ AsyncProcessImage(m, c, d, img, callable_cb)
    /\ UNCHANGED <<mono, known_faces, library_available, door_cooldown>>
    /\ UNCHANGED <<apiVars, bgVars, expVars, relVars, extVars>>

\* its executor job has finished
MatchDone(c) ==
    /\ fp[c].pc = "matching"
    /\ \E view \in fp[c].views : AfterMatch(c, MatchRead(c, view))
    /\ UNCHANGED <<mono, known_faces, library_available, door_cooldown>>
    /\ UNCHANGED <<apiVars, bgVars, expVars, relVars, extVars>>

\* its open callback has returned (ok) or raised
OpenDone(c, ok) ==
    /\ fp[c].pc = "opening"
    /\ AfterOpen(c, ok)
    /\ UNCHANGED <<mono, known_faces, library_available>>
    /\ UNCHANGED <<apiVars, bgVars, expVars, relVars, extVars>>

\* time.monotonic() advances
TickMono ==
    /\ mono < MaxMono
    /\ mono' = mono + 1
    /\ UNCHANGED <<known_faces, library_available, door_cooldown, fp, match_log>>
    /\ UNCHANGED <<apiVars, bgVars, expVars, relVars, extVars>>

\* FaceRecognitionManager.__init__
InitFace ==
    /\ mono = 0
    /\ known_faces = OfFirst(<<>>)
    /\ library_available = TRUE
    /\ door_cooldown = OfFirst(NoCooldown)
    /\ fp = [c \in FaceCallers |-> IdleFp]
    /\ match_log = <<>>

\* The manager in service: the reference point of the monotonic clock is
\* undefined, the known faces come from the entry's options.
InitFaceAny ==
    /\ mono \in 0..MaxMono
    /\ known_faces \in
          {OfFirst(known) :
             known \in {<<>>, <<KnownFace("alice", "v1")>>,
                        <<KnownFace("bob", "v1"), KnownFace("alice", "v1")>>}}
    /\ library_available \in BOOLEAN
    /\ door_cooldown = OfFirst(NoCooldown)
    /\ fp = [c \in FaceCallers |-> IdleFp]
    /\ match_log = <<>>

-----------------------------------------------------------------------------
(* background.py: DoorBackgroundProcessor.                                 *)

BgDoors == {"d1", "d2"}
BgTasks == {"t1", "t2"}

\* What a cycle has done so far: start, the selected doors that were listed
\* when its loop began; fetched, the doors whose frame was requested; failed,
\* the doors whose frame request or whose processing failed; no_url, the
\* listed doors that had no image_url when the loop came to them.
NoHistory == [start |-> {}, fetched |-> {}, failed |-> {}, no_url |-> {}]
Fetching(hist, u) == [hist EXCEPT !.fetched = @ \cup {u}]
Failing(hist, u) == [hist EXCEPT !.failed = @ \cup {u}]
Passing(hist, V) == [hist EXCEPT !.no_url = @ \cup V]

\* What a cycle has read from hass.data at its start: manager, the face
\* manager; the dict `doors`, made by _list_available_doors.  The values of
\* the dict are the door dicts of hass.data themselves: uids, its keys;
\* live, the keys whose dict is still the one in hass.data; no_url, the keys
\* whose dict holds no image_url by now.
NoSnapshot == [manager |-> FirstManager, uids |-> {}, live |-> {}, no_url |-> {}]
Snapshot(m, available) ==
    [manager |-> m, uids |-> available, live |-> available, no_url |-> {}]

\* An invocation that is not running; exit: how its last run ended.
IdleTask ==
    [pc |-> "idle", todo |-> {}, snap |-> NoSnapshot, cur |-> "-",
     exit |-> "none", hist |-> NoHistory]
Exited(how) == [IdleTask EXCEPT !.exit = how]

\* a mutant: the busy test never sees the lock held
LockNeverLocked(l) == FALSE

\* self._lock.locked()
LockLocked(l) == l

\* a mutant: leaving the cycle does not release the lock
LockAfterExitKept(l) == l

\* `async with self._lock`: the lock after the block was left, by its end,
\* by a return or by an exception
LockAfterExit(l) == FALSE

\* async_stop
AsyncStopEffect ==
    /\ unsubscribe' = FALSE
    /\ selected_uids' = {}

\* a mutant: the loop neither prunes the selection nor cancels the timer
ContinueCycleKeepsSelection(t, todo, snap, hist) ==
    \/ \E u \in (todo \cap snap.uids) \ snap.no_url :
          /\ task' = [task EXCEPT ![t] =
                [pc |-> "fetch", todo |-> todo \ {u}, snap |-> snap,
                 cur |-> u, exit |-> "none", hist |-> Fetching(hist, u)]]
          /\ lock' = TRUE
          /\ UNCHANGED <<selected_uids, unsubscribe>>
    \/ /\ (todo \cap snap.uids) \ snap.no_url = {}
       /\ lock' = LockAfterExit(TRUE)
       /\ task' = [task EXCEPT ![t] = [Exited("end") EXCEPT !.hist = hist]]
       /\ UNCHANGED <<selected_uids, unsubscribe>>

\* The loop of _async_process_selected from one await to the next.  todo:
\* the uids of list(self._selected_uids) not yet visited, in any order;
\* snap: the doors listed at the start of the cycle.  A visited uid that is
\* not listed is discarded from the selection; for a listed door without
\* image_url _async_process_single returns at once, the door stays
\* selected; the frame of the first other door is requested.  Or the loop
\* ends: the timer is cancelled when nothing is selected any more and the
\* lock is released.
ContinueCycle(t, todo, snap, hist) ==
    LET listed == todo \cap snap.uids
        unlisted == todo \ snap.uids
    IN  \/ \E u \in listed \ snap.no_url, D \in SUBSET unlisted,
               V \in SUBSET (listed \cap snap.no_url) :
              /\ selected_uids' = selected_uids \ D
              /\ task' = [task EXCEPT ![t] =
                    [pc |-> "fetch", todo |-> todo \ (D \cup V \cup {u}),
                     snap |-> snap, cur |-> u, exit |-> "none",
                     hist |-> Fetching(Passing(hist, V), u)]]
              /\ lock' = TRUE
              /\ UNCHANGED unsubscribe
        \/ /\ listed \ snap.no_url = {}
           /\ selected_uids' = selected_uids \ unlisted
           /\ unsubscribe' = IF selected_uids \ unlisted = {} THEN FALSE
                             ELSE unsubscribe
           /\ lock' = LockAfterExit(TRUE)
           /\ task' = [task EXCEPT ![t] =
                         [Exited("end") EXCEPT !.hist = Passing(hist, listed)]]

\* _async_process_selected from its entry to its first await
BeginCycle(t) ==
    IF selected_uids = {}
    THEN /\ task' = [task EXCEPT ![t] = Exited("not_selected")]
         /\ UNCHANGED <<selected_uids, unsubscribe, lock, skipped>>
    ELSE IF LockLocked(lock)
    THEN /\ task' = [task EXCEPT ![t] = Exited("busy")]
         /\ skipped' = TRUE
         /\ UNCHANGED <<selected_uids, unsubscribe, lock>>
    ELSE /\ skipped' = FALSE
         /\ IF IsNone(manager)
            THEN /\ task' = [task EXCEPT ![t] = Exited("no_manager")]
                 /\ lock' = LockAfterExit(TRUE)
                 /\ UNCHANGED <<selected_uids, unsubscribe>>
            ELSE IF doors = {}
            THEN /\ AsyncStopEffect
                 /\ task' = [task EXCEPT ![t] = Exited("no_doors")]
                 /\ lock' = LockAfterExit(TRUE)
            ELSE ContinueCycle(t, selected_uids, Snapshot(Val(manager), doors),
                               [NoHistory EXCEPT
                                   !.start = selected_uids \cap doors])

\* the timer fires: asyncio.create_task(self._async_process_selected())
TimerTick(t) ==
    /\ unsubscribe
    /\ task[t].pc = "idle"
    /\ task' = [task EXCEPT ![t] = [IdleTask EXCEPT !.pc = "scheduled"]]
    /\ UNCHANGED <<selected_uids, unsubscribe, lock, doors, manager, skipped,
                   torn_down>>
    /\ UNCHANGED <<apiVars, faceVars, expVars, relVars, extVars>>

\* the task created by the timer starts running
TaskStart(t) ==
    /\ task[t].pc = "scheduled"
    /\ BeginCycle(t)
    /\ UNCHANGED <<doors, manager, torn_down>>
    /\ UNCHANGED <<apiVars, faceVars, expVars, relVars, extVars>>

\* async_force_cycle
AsyncForceCycle(t) ==
    /\ task[t].pc = "idle"
    /\ BeginCycle(t)
    /\ UNCHANGED <<doors, manager, torn_down>>
    /\ UNCHANGED <<apiVars, faceVars, expVars, relVars, extVars>>

\* What the frame request of _async_process_single comes to: a frame (status
\* 200 and a body), no frame (another status, a ClientError, a timeout: a
\* warning is logged), or an exception of another class, which leaves
\* _async_process_selected through its `async with`.
FetchOutcomes == {"frame", "no_frame", "raised"}

\* a mutant: a door that failed ends the loop
RemainingAfterFailureNone(todo) == {}

\* _async_process_single returns after a failure it has logged: the loop of
\* _async_process_selected goes on with the uids it has not visited yet
RemainingAfterFailure(todo) == todo

\* the caller of async_process_image that the background cycle is
BgCaller == "background"

\* _async_process_single after session.get.  With a frame it calls
\* manager.async_process_image(uid, image_bytes, open_callback), which
\* returns at one of its first tests or goes on to its executor job.
\* callable_cb: the door has a callback or the entry has a default one.
FetchDone(t, outcome, img, callable_cb) ==
    /\ task[t].pc = "fetch"
    /\ CASE outcome = "frame" ->
              /\ MayMatch(img) => Len(match_log) < MaxMatches
              /\ AsyncProcessImage(task[t].snap.manager, BgCaller,
                                   task[t].cur, img, callable_cb)
              /\ IF EarlyReturn(task[t].snap.manager, task[t].cur, img,
                                callable_cb) = "none"
                 THEN /\ task' = [task EXCEPT ![t].pc = "process"]
                      /\ UNCHANGED <<selected_uids, unsubscribe, lock>>
                 ELSE ContinueCycle(t, task[t].todo, task[t].snap,
                                    task[t].hist)
         [] outcome = "no_frame" ->
              /\ ContinueCycle(t, RemainingAfterFailure(task[t].todo),
                               task[t].snap,
                               Failing(task[t].hist, task[t].cur))
              /\ UNCHANGED <<fp, match_log>>
         [] outcome = "raised" ->
              /\ task' = [task EXCEPT ![t] =
                            [Exited("raised") EXCEPT !.hist = task[t].hist]]
              /\ lock' = LockAfterExit(TRUE)
              /\ UNCHANGED <<selected_uids, unsubscribe, fp, match_log>>
    /\ UNCHANGED <<mono, known_faces, library_available, door_cooldown>>
    /\ UNCHANGED <<doors, manager, skipped, torn_down>>
    /\ UNCHANGED <<apiVars, expVars, relVars, extVars>>

\* the executor job of the async_process_image call of the cycle has
\* finished: without a match the call returns and the loop goes on; an
\* exception that leaves the call is logged by _async_process_single and the
\* loop goes on; with a match the open callback is invoked
ProcessMatchDone(t) ==
    /\ task[t].pc = "process" /\ fp[BgCaller].pc = "matching"
    /\ \E view \in fp[BgCaller].views :
          LET how == MatchRead(BgCaller, view)
          IN  /\ AfterMatch(BgCaller, how)
              /\ CASE how = "match" ->
                        UNCHANGED <<task, selected_uids, unsubscribe, lock>>
                   [] how = "raised" ->
                        ContinueCycle(t, RemainingAfterFailure(task[t].todo),
                                      task[t].snap,
                                      Failing(task[t].hist, task[t].cur))
                   [] OTHER ->
                        ContinueCycle(t, task[t].todo, task[t].snap,
                                      task[t].hist)
    /\ UNCHANGED <<mono, known_faces, library_available, door_cooldown>>
    /\ UNCHANGED <<doors, manager, skipped, torn_down>>
    /\ UNCHANGED <<apiVars, expVars, relVars, extVars>>

\* the open callback of that call has returned (ok) or raised: the cooldown
\* of the door is stamped or the error is logged by async_process_image;
\* the call returns and the loop goes on
ProcessOpenDone(t, ok) ==
    /\ task[t].pc = "process" /\ fp[BgCaller].pc = "opening"
    /\ AfterOpen(BgCaller, ok)
    /\ ContinueCycle(t, task[t].todo, task[t].snap, task[t].hist)
    /\ UNCHANGED <<mono, known_faces, library_available>>
    /\ UNCHANGED <<doors, manager, skipped, torn_down>>
    /\ UNCHANGED <<apiVars, expVars, relVars, extVars>>

\* async_stop, called directly
AsyncStop ==
    /\ AsyncStopEffect
    /\ UNCHANGED <<lock, task, doors, manager, skipped, torn_down>>
    /\ UNCHANGED <<apiVars, faceVars, expVars, relVars, extVars>>

\* async_unload_entry, the teardown of the entry: the store of the entry is
\* popped from hass.data, with its door list and its face manager, and the
\* timer of the door refresh is cancelled.  Nothing in it calls async_stop:
\* the selection, the timer and the invocations of the processor are left
\* as they are.  The dicts of a snapshot are in no store any more.
Teardown ==
    /\ torn_down' = TRUE
    /\ doors' = {}
    /\ manager' = None
    /\ task' = [t \in BgTasks |-> [task[t] EXCEPT !.snap.live = {}]]
    /\ UNCHANGED <<selected_uids, unsubscribe, lock, skipped>>
    /\ UNCHANGED <<apiVars, faceVars, expVars, relVars, extVars>>

\* async_refresh_from_options with _async_apply_selection.  option: None
\* when CONF_BACKGROUND_CAMERAS is no list, else Some(the uids listed);
\* the default selection is the main door with video, else the first one.
AsyncRefreshFromOptions(option) ==
    /\ IF doors = {}
       THEN AsyncStopEffect
       ELSE \E desired \in IF IsNone(option)
                           THEN {{u} : u \in doors}
                           ELSE {Val(option) \cap doors} :
               IF desired = selected_uids
               THEN UNCHANGED <<selected_uids, unsubscribe>>
               ELSE /\ selected_uids' = desired \cap doors
                    /\ unsubscribe' = (desired \cap doors # {})
    /\ UNCHANGED <<lock, task, doors, manager, skipped, torn_down>>
    /\ UNCHANGED <<apiVars, faceVars, expVars, relVars, extVars>>

\* async_setup_entry writes the store of the entry: a new dict with a new
\* door list (available: its doors with a camera and an image_url) and
\* without a face manager.  The dicts of a snapshot stay what they were.
DoorsReplaced(available) ==
    /\ doors' = available
    /\ manager' = None
    /\ torn_down' = FALSE
    /\ task' = [t \in BgTasks |-> [task[t] EXCEPT !.snap.live = {}]]
    /\ UNCHANGED <<selected_uids, unsubscribe, lock, skipped>>
    /\ UNCHANGED <<apiVars, faceVars, expVars, relVars, extVars>>

\* _async_refresh_door_links, which returns when the entry has no store or
\* no door list: the dicts of the doors are updated in place (door_entry[key]
\* = value), doors gain or lose their camera (lost: the doors left without
\* image_url, the others that are not available have lost has_video), and a
\* cycle in flight sees the update in the dicts of its snapshot.
DoorsChange(available, lost) ==
    /\ ~torn_down
    /\ lost \cap available = {}
    /\ doors' = available
    /\ task' = [t \in BgTasks |->
                  LET snap == task[t].snap
                  IN  [task[t] EXCEPT !.snap.no_url =
                         (@ \ snap.live) \cup (lost \cap snap.live)]]
    /\ UNCHANGED <<selected_uids, unsubscribe, lock, manager, skipped,
                   torn_down>>
    /\ UNCHANGED <<apiVars, faceVars, expVars, relVars, extVars>>

\* DoorBackgroundProcessor.__init__
InitBg ==
    /\ selected_uids = {}
    /\ unsubscribe = FALSE
    /\ lock = FALSE
    /\ task = [t \in BgTasks |-> IdleTask]
    /\ doors = {}
    /\ manager = None
    /\ skipped = FALSE
    /\ torn_down = FALSE

-----------------------------------------------------------------------------
(* face_manager.py: the list of known faces and its copy in the options.   *)

FaceOps == {"o1", "o2"}

\* KnownFace.as_dict: an item of entry.options[CONF_KNOWN_FACES].  dict: the
\* item is a dict; name: None when it is no str; encoding: None when it is
\* no list of numbers.
AsDict(face) ==
    [dict |-> TRUE, name |-> Some(face.name), encoding |-> Some(face.encoding)]
JunkStored ==
    {[dict |-> FALSE, name |-> None, encoding |-> None],
     [dict |-> TRUE, name |-> None, encoding |-> Some("v1")],
     [dict |-> TRUE, name |-> Some("alice"), encoding |-> None]}

\* _async_store_faces: options[CONF_KNOWN_FACES]
StoreFaces(faces) == [i \in 1..Len(faces) |-> AsDict(faces[i])]

\* _load_known_faces_from_entry: damaged items are skipped
RECURSIVE LoadKnownFacesFromEntry(_, _)
LoadKnownFacesFromEntry(stored, i) ==
    IF i > Len(stored) THEN <<>>
    ELSE LET item == stored[i]
         IN  IF ~item.dict \/ IsNone(item.name) \/ IsNone(item.encoding)
             THEN LoadKnownFacesFromEntry(stored, i + 1)
             ELSE <<KnownFace(Val(item.name), Val(item.encoding))>>
                    \o LoadKnownFacesFromEntry(stored, i + 1)

\* a mutant: the entries of the same name are kept
WithFaceAppended(faces, name, encoding) ==
    Append(faces, KnownFace(name, encoding))

\* async_add_known_face: the entries of the same name are removed, the new
\* one is appended
WithFace(faces, name, encoding) ==
    Append(SelectSeq(faces, LAMBDA f : f.name # name),
           KnownFace(name, encoding))

\* async_remove_known_face: the list without the entries of the name
WithoutFace(faces, name) == SelectSeq(faces, LAMBDA f : f.name # name)

\* The image handed to async_add_known_face: empty bytes, or bytes in which
\* _extract_encoding finds a face (encoding) or raises (None).
AddImages ==
    {[empty |-> TRUE, encoding |-> None], [empty |-> FALSE, encoding |-> None]}
    \cup {[empty |-> FALSE, encoding |-> Some(e)] : e \in Encodings}

\* An invocation on the manager self; existed: the name was in the list when
\* the entry was added; pos: its place among the waiters of the lock, 0 when
\* it does not wait.
IdleFaceOp ==
    [pc |-> "idle", self |-> FirstManager, kind |-> "none", name |-> "alice",
     image |-> [empty |-> TRUE, encoding |-> None], result |-> "none",
     existed |-> FALSE, pos |-> 0]

\* the managers made so far
Made == DOMAIN known_faces

\* asyncio.Lock: the invocations waiting in acquire() of the lock of m
FaceWaiters(m) ==
    {o \in FaceOps : face_op[o].pc = "waiting" /\ face_op[o].self = m}

\* asyncio.Lock.acquire takes the lock at once only when it is free and no
\* waiter is pending; otherwise the caller is put behind the waiters
LockFree(m) == ~face_lock[m] /\ FaceWaiters(m) = {}
Enqueued(op) ==
    [op EXCEPT !.pc = "waiting", !.pos = Cardinality(FaceWaiters(op.self)) + 1]

\* asyncio.Lock: the first waiter of the lock of m leaves the queue, the
\* others move up
Dequeued(m) ==
    [o \in FaceOps |->
        IF face_op[o].pc = "waiting" /\ face_op[o].self = m
        THEN [face_op[o] EXCEPT !.pos = face_op[o].pos - 1]
        ELSE face_op[o]]

\* _async_store_faces, its last lines: the manager puts itself into
\* hass.data[DOMAIN][entry_id] through setdefault, which creates the store of
\* the entry when there is none
StoreManager(store, m) ==
    IF IsNone(store)
    THEN Some([door_openers |-> <<>>, open_door |-> 0,
               face_manager |-> Some(m), config |-> None])
    ELSE Some([Val(store) EXCEPT !.face_manager = Some(m)])

\* async_remove_known_face inside `async with self._lock`: it has no
\* suspension point up to the release of the lock
RemoveLocked(ops, o, m, name) ==
    LET after == WithoutFace(known_faces[m], name)
    IN  /\ known_faces' = [known_faces EXCEPT ![m] = after]
        /\ fp' = Observed(fp, m, after)
        /\ IF Len(after) = Len(known_faces[m])
           THEN /\ face_op' = [ops EXCEPT ![o] =
                        [IdleFaceOp EXCEPT !.self = m, !.kind = "remove",
                                           !.name = name, !.result = "error"]]
                /\ UNCHANGED <<stored_faces, door_store, manager>>
           ELSE /\ face_op' = [ops EXCEPT ![o] =
                        [IdleFaceOp EXCEPT !.self = m, !.kind = "remove",
                                           !.name = name, !.result = "ok"]]
                /\ stored_faces' = StoreFaces(after)
                /\ door_store' = StoreManager(door_store, m)
                /\ manager' = Some(m)
        /\ UNCHANGED face_lock

\* async_add_known_face of the manager m up to its first suspension
AsyncAddKnownFace(m, o, name, image) ==
    /\ m \in Made /\ face_op[o].pc = "idle"
    /\ LET started == [IdleFaceOp EXCEPT !.self = m, !.kind = "add",
                                         !.name = name, !.image = image]
       IN  IF ~library_available \/ image.empty
           THEN /\ face_op' = [face_op EXCEPT ![o] =
                        [started EXCEPT !.result = "error"]]
                /\ UNCHANGED face_lock
           ELSE IF ~LockFree(m)
           THEN /\ face_op' = [face_op EXCEPT ![o] = Enqueued(started)]
                /\ UNCHANGED face_lock
           ELSE /\ face_op' = [face_op EXCEPT ![o] =
                        [started EXCEPT !.pc = "encoding"]]
                /\ face_lock' = [face_lock EXCEPT ![m] = TRUE]
    /\ UNCHANGED <<stored_faces, btnVars, callVars, svcVars, doorVars>>
    /\ UNCHANGED <<apiVars, faceVars, bgVars, expVars, relVars>>

\* the executor job _extract_encoding has finished: the list of the manager
\* is replaced by the one without the name, the new face is appended to it
\* and the list is stored; or the error leaves the `async with`
AddEncodingDone(o) ==
    /\ face_op[o].pc = "encoding"
    /\ LET c == face_op[o]
           m == c.self
       IN  /\ IF IsNone(c.image.encoding)
              THEN /\ face_op' = [face_op EXCEPT ![o] =
                           [c EXCEPT !.pc = "idle", !.result = "error"]]
                   /\ UNCHANGED <<known_faces, stored_faces, door_store, fp,
                                  manager>>
              ELSE /\ known_faces' =
                         [known_faces EXCEPT ![m] =
                             WithFace(@, c.name, Val(c.image.encoding))]
                   /\ fp' = Observed(Observed(fp, m,
                                              WithoutFace(known_faces[m],
                                                          c.name)),
                                     m, known_faces'[m])
                   /\ stored_faces' = StoreFaces(known_faces'[m])
                   /\ door_store' = StoreManager(door_store, m)
                   /\ manager' = Some(m)
                   /\ face_op' = [face_op EXCEPT ![o] =
                           [c EXCEPT !.pc = "idle", !.result = "ok",
                                     !.existed =
                                         \E i \in 1..Len(known_faces[m]) :
                                             known_faces[m][i].name = c.name]]
           /\ face_lock' = [face_lock EXCEPT ![m] = FALSE]
    /\ UNCHANGED <<mono, library_available, door_cooldown, match_log>>
    /\ UNCHANGED <<btnVars, callVars, svcVars>>
    /\ UNCHANGED <<build_in, build_out, door_config, door_job>>
    /\ UNCHANGED <<apiVars, bgRest, expVars, relVars>>

\* async_remove_known_face of the manager m
AsyncRemoveKnownFace(m, o, name) ==
    /\ m \in Made /\ face_op[o].pc = "idle"
    /\ IF ~LockFree(m)
       THEN /\ face_op' = [face_op EXCEPT ![o] =
                    Enqueued([IdleFaceOp EXCEPT !.self = m, !.kind = "remove",
                                                !.name = name])]
            /\ UNCHANGED <<known_faces, stored_faces, face_lock, door_store,
                           fp, manager>>
       ELSE RemoveLocked(face_op, o, m, name)
    /\ UNCHANGED <<mono, library_available, door_cooldown, match_log>>
    /\ UNCHANGED <<btnVars, callVars, svcVars>>
    /\ UNCHANGED <<build_in, build_out, door_config, door_job>>
    /\ UNCHANGED <<apiVars, bgRest, expVars, relVars>>

\* the first invocation waiting at `async with self._lock` gets the lock
FaceLockAcquired(o) ==
    /\ face_op[o].pc = "waiting" /\ face_op[o].pos = 1
    /\ ~face_lock[face_op[o].self]
    /\ IF face_op[o].kind = "add"
       THEN /\ face_op' = [Dequeued(face_op[o].self) EXCEPT
                              ![o].pc = "encoding"]
            /\ face_lock' = [face_lock EXCEPT ![face_op[o].self] = TRUE]
            /\ UNCHANGED <<known_faces, stored_faces, door_store, fp,
                           manager>>
       ELSE RemoveLocked(Dequeued(face_op[o].self), o, face_op[o].self,
                         face_op[o].name)
    /\ UNCHANGED <<mono, library_available, door_cooldown, match_log>>
    /\ UNCHANGED <<btnVars, callVars, svcVars>>
    /\ UNCHANGED <<build_in, build_out, door_config, door_job>>
    /\ UNCHANGED <<apiVars, bgRest, expVars, relVars>>

\* config_flow.py, _async_resolve_face_manager (the steps init, add_face and
\* remove_face of the options flow begin with it): the manager kept in
\* hass.data[DOMAIN][entry_id] is returned; when there is none, the store of
\* the entry is created if need be and a new FaceRecognitionManager is put
\* into it.  The new manager has the faces of the options, a free lock and
\* no cooldown; the managers made before stay what they are, with the
\* invocations in flight on them.  Managers bounds the managers made.
AsyncResolveFaceManager ==
    /\ LET held == IF IsNone(door_store) THEN None
                   ELSE Val(door_store).face_manager
       IN  IF IsNone(held)
           THEN \E m \in Managers \ Made :
                   /\ door_store' = StoreManager(door_store, m)
                   /\ manager' = Some(m)
                   /\ known_faces' =
                         (m :> LoadKnownFacesFromEntry(stored_faces, 1))
                             @@ known_faces
                   /\ face_lock' = (m :> FALSE) @@ face_lock
                   /\ door_cooldown' = (m :> NoCooldown) @@ door_cooldown
           ELSE UNCHANGED <<door_store, manager, known_faces, face_lock,
                            door_cooldown>>
    /\ UNCHANGED <<mono, library_available, fp, match_log>>
    /\ UNCHANGED <<face_op, stored_faces, btnVars, callVars, svcVars>>
    /\ UNCHANGED <<build_in, build_out, door_config, door_job>>
    /\ UNCHANGED <<apiVars, bgRest, expVars, relVars>>

InitKf ==
    /\ face_lock = OfFirst(FALSE)
    /\ face_op = [o \in FaceOps |-> IdleFaceOp]
    /\ stored_faces = <<>>

-----------------------------------------------------------------------------
(* button.py: IntersvyazDoorOpenButton.                                    *)

MaxPresses == 3
Pressers == {"q1", "q2"}

\* What awaiting the open callable comes to: it returns, it raises
\* IntersvyazApiError, or it raises another Exception.
CallableOutcomes == {"ok", "api_error", "exception"}

\* async_press: `if self._is_busy: return`
IsBusy(b) == b.busy

\* DOOR_STATUS_LABELS.get(status_code, status_code): the text shown for a
\* status code
DoorStatusLabel(status_code) == <<"label", status_code>>

\* _compose_state_attributes: the status fields of the attributes (the
\* fields of the door never change)
ComposeStateAttributes(b) ==
    [status_code |-> b.status, status_label |-> b.label, busy |-> b.busy,
     updated_at |-> b.updated_at, error |-> b.last_error]

\* _store_status for a door that has a uid: the time and the error text are
\* taken, the payload is stored under the uid in the shared statuses and
\* sent through the dispatcher
StoreStatus(b, error, at) ==
    LET last_error == IF b.status = "error" THEN error ELSE None
        payload == [status_code |-> b.status, status_label |-> b.label,
                    busy |-> b.busy, updated_at |-> at, error |-> last_error]
    IN  [b EXCEPT !.updated_at = at, !.last_error = last_error,
                  !.stored = payload, !.sent = payload]

\* _set_status: the status code, the label, the busy flag and the
\* availability are set, the attributes are composed, then _store_status
\* runs; error: the text handed in (None: no text), at: the wall clock
SetStatus(b, status_code, busy, error, at) ==
    LET set == [b EXCEPT !.status = status_code,
                         !.label = DoorStatusLabel(status_code),
                         !.busy = busy, !.available = ~busy]
        composed == [set EXCEPT !.attributes = ComposeStateAttributes(set)]
    IN  StoreStatus(composed, error, at)

\* a mutant: no reset task is created
ScheduleStatusResetForgets(b) == [b EXCEPT !.reset = "none"]

\* _schedule_status_reset: the pending reset task is cancelled and a new one
\* is created, which sleeps BUTTON_STATUS_RESET_DELAY_SECONDS
ScheduleStatusReset(b) == [b EXCEPT !.reset = "sleeping"]

\* _cancel_status_reset
CancelStatusReset(b, release_busy) ==
    IF release_busy
    THEN [b EXCEPT !.reset = "none", !.busy = FALSE, !.available = TRUE]
    ELSE [b EXCEPT !.reset = "none"]

IdlePress == [pc |-> "idle", result |-> "none"]

\* async_press up to `await self._open_door_callable()`.  accepted and
\* calls count the presses that passed the busy test and the invocations of
\* the open callable.
AsyncPress(q) ==
    /\ press[q].pc = "idle"
    /\ button.accepted < MaxPresses
    /\ IF IsBusy(button)
       THEN /\ press' = [press EXCEPT ![q] =
                    [pc |-> "idle", result |-> "ignored"]]
            /\ UNCHANGED button
       ELSE /\ press' = [press EXCEPT ![q] =
                    [pc |-> "opening", result |-> "none"]]
            /\ button' =
                  [SetStatus(CancelStatusReset(button, FALSE), "opening", TRUE,
                             None, now)
                     EXCEPT !.accepted = @ + 1, !.calls = @ + 1]
    /\ UNCHANGED <<kfVars, callVars, svcVars, doorVars>>
    /\ UNCHANGED <<apiVars, faceVars, bgVars, expVars, relVars>>

\* the rest of async_press: the open callable has returned or raised
AsyncPressDone(q, outcome) ==
    /\ press[q].pc = "opening"
    /\ button' = ScheduleStatusReset(
                    SetStatus(button,
                              IF outcome = "ok" THEN "opened" ELSE "error",
                              TRUE,
                              IF outcome = "ok" THEN None ELSE Some("failed"),
                              now))
    /\ press' = [press EXCEPT ![q] =
            [pc |-> "idle",
             result |-> IF outcome = "ok" THEN "ok" ELSE "raised"]]
    /\ UNCHANGED <<kfVars, callVars, svcVars, doorVars>>
    /\ UNCHANGED <<apiVars, faceVars, bgVars, expVars, relVars>>

\* _async_reset_after_delay: the sleep has ended without being cancelled
ResetAfterDelay ==
    /\ button.reset = "sleeping"
    /\ button' = [SetStatus(button, "ready", FALSE, None, now)
                    EXCEPT !.reset = "none"]
    /\ UNCHANGED <<press, kfVars, callVars, svcVars, doorVars>>
    /\ UNCHANGED <<apiVars, faceVars, bgVars, expVars, relVars>>

\* async_will_remove_from_hass: the reset task is cancelled and the button
\* is made ready, whatever its state and however often the method has been
\* called; async_press tests nothing but the busy flag afterwards
AsyncWillRemoveFromHass ==
    /\ button' = [SetStatus(CancelStatusReset(button, TRUE), "ready", FALSE,
                            None, now)
                    EXCEPT !.removed = TRUE]
    /\ UNCHANGED <<press, kfVars, callVars, svcVars, doorVars>>
    /\ UNCHANGED <<apiVars, faceVars, bgVars, expVars, relVars>>

\* IntersvyazDoorOpenButton.__init__
InitBtn ==
    /\ button =
          LET payload == [status_code |-> "ready",
                          status_label |-> DoorStatusLabel("ready"),
                          busy |-> FALSE, updated_at |-> 0, error |-> None]
          IN  [busy |-> FALSE, status |-> "ready",
               label |-> DoorStatusLabel("ready"), available |-> TRUE,
               updated_at |-> 0, last_error |-> None,
               attributes |-> payload, stored |-> payload, sent |-> payload,
               reset |-> "none", removed |-> FALSE,
               accepted |-> 0, calls |-> 0]
    /\ press = [q \in Pressers |-> IdlePress]

-----------------------------------------------------------------------------
(* __init__.py: the open callable of a door and _persist_tokens.           *)

Openers == {"k1", "k2"}

\* What awaiting api_client.async_open_door comes to: it returns or raises.
ApiOutcomes == {"ok", "error"}

\* the CRM token of the client: none, or one without a time limit
SetupTokens ==
    {None} \cup {Some([token |-> t, access_end |-> None]) : t \in CrmTokens}

\* entry.data as far as the fallback door reads it: CONF_DOOR_MAC,
\* CONF_RELAY_NUM (None: the key is absent), CONF_DOOR_ENTRANCE,
\* CONF_DOOR_ADDRESS (code points; the config flow stores it when the relay
\* has one), CONF_DOOR_OPEN_LINK
NoConfig == [mac |-> None, relay_num |-> None, entrance |-> None,
             address |-> None, open_link |-> None]

\* config_data, a copy of entry.data: the tokens and the configuration of
\* the door
ConfigData(tokens, door) == [tokens |-> tokens, door |-> door]

\* _persist_tokens, the tokens of config_data: the tokens the client holds
\* replace the ones of the configuration
PersistTokens(data, mt, ct) ==
    [mobile |-> IF ~IsNone(mt) THEN mt ELSE data.mobile,
     crm |-> IF ~IsNone(ct) THEN ct ELSE data.crm]

\* a mutant: the tokens are persisted whatever the open operation did
PersistReachedAlways(outcome) == TRUE

\* _async_open_door: `await _persist_tokens(...)` follows the awaited open
\* operation and is reached only when that returned
PersistReached(outcome) == outcome = "ok"

\* api_calls and persisted count the calls of api_client.async_open_door
\* and of _persist_tokens of an invocation.
IdleOpener ==
    [pc |-> "idle", result |-> "none", api_calls |-> 0, persisted |-> 0]

\* _async_open_door up to `await api_client.async_open_door(...)`
AsyncOpenDoor(k) ==
    /\ opener[k].pc = "idle"
    /\ opener' = [opener EXCEPT ![k] =
            [IdleOpener EXCEPT !.pc = "opening", !.api_calls = 1]]
    /\ UNCHANGED <<entry_data, entry_loaded, kfVars, btnVars, svcVars, doorVars>>
    /\ UNCHANGED <<apiVars, faceVars, bgVars, expVars, relVars>>

\* The open operation has ended; ct: the CRM token the client holds then
\* (the stored one, or the one an authorization of the call returned).
\* When it returned, _persist_tokens runs: it returns when hass.data holds
\* no store of the entry; else it copies DATA_CONFIG of the store (an empty
\* dict when the store has none), puts the tokens of the client into the
\* copy and, when the copy differs from entry.data, makes it entry.data and
\* DATA_CONFIG of the store.
AsyncOpenDoorDone(k, outcome, ct) ==
    /\ opener[k].pc = "opening"
    /\ crm_token' = ct
    /\ IF PersistReached(outcome)
       THEN /\ IF IsNone(door_store)
               THEN UNCHANGED <<entry_data, door_config, door_store>>
               ELSE LET stored == Val(door_store)
                        base == IF IsNone(stored.config)
                                THEN ConfigData([mobile |-> None,
                                                 crm |-> None], NoConfig)
                                ELSE Val(stored.config)
                        config_data ==
                            ConfigData(PersistTokens(base.tokens,
                                                     mobile_token, ct),
                                       base.door)
                    IN  IF config_data # ConfigData(entry_data, door_config)
                        THEN /\ entry_data' = config_data.tokens
                             /\ door_config' = config_data.door
                             /\ door_store' =
                                   Some([stored EXCEPT
                                           !.config = Some(config_data)])
                        ELSE UNCHANGED <<entry_data, door_config, door_store>>
            /\ opener' = [opener EXCEPT ![k] =
                    [@ EXCEPT !.pc = "idle", !.persisted = @ + 1,
                              !.result = IF outcome = "ok" THEN "ok"
                                         ELSE "raised"]]
       ELSE /\ UNCHANGED <<entry_data, door_config, door_store>>
            /\ opener' = [opener EXCEPT ![k] =
                    [@ EXCEPT !.pc = "idle", !.result = "raised"]]
    /\ UNCHANGED <<now, mobile_token, call>>
    /\ UNCHANGED <<entry_loaded, kfVars, btnVars, svcVars>>
    /\ UNCHANGED <<build_in, build_out, door_job>>
    /\ UNCHANGED <<faceVars, bgVars, expVars, relVars>>

InitCall ==
    /\ opener = [k \in Openers |-> IdleOpener]
    /\ entry_data = [mobile |-> None, crm |-> None]
    /\ entry_loaded = TRUE

-----------------------------------------------------------------------------
(* __init__.py: the open_door service.                                     *)

MaxOpeners == 2
DoorUids == {"u1", "u2", "u3"}

\* next(door for door in door_openers if door.get("uid") == uid): the place
\* of the first door with the uid, 0 when there is none
FindDoor(door_openers, uid) ==
    LET hits == {i \in 1..Len(door_openers) : door_openers[i].uid = uid}
    IN  IF hits = {} THEN 0 ELSE CHOOSE i \in hits : \A j \in hits : i <= j

\* a mutant: the default door is the first of the list
DefaultDoorFirst(door_openers) == 1

\* next((door for door in door_openers if door.get("is_main")),
\* door_openers[0]) on a list that is not empty
DefaultDoor(door_openers) ==
    LET mains == {i \in 1..Len(door_openers) : door_openers[i].is_main}
    IN  IF mains = {} THEN 1 ELSE CHOOSE i \in mains : \A j \in mains : i <= j

\* handle_open_door up to `await open_door_callable()`: the error it raises
\* ("none": it goes on) and the callable it has chosen (a door's uid, or
\* "default" for the callable stored under DATA_OPEN_DOOR).  A door_uid that
\* is the empty string is not a request for a door (`if requested_door_uid`).
HandleOpenDoor(in) ==
    LET door_openers == in.door_openers
        requested == ~IsNone(in.door_uid) /\ Val(in.door_uid) # ""
        found == IF requested THEN FindDoor(door_openers, Val(in.door_uid))
                 ELSE 0
    IN  IF ~in.entry_known THEN [error |-> "no_entry", target |-> None]
        ELSE IF requested /\ found = 0
        THEN [error |-> "no_door", target |-> None]
        ELSE IF requested
        THEN [error |-> "none", target |-> Some(door_openers[found].uid)]
        ELSE IF door_openers # <<>>
        THEN [error |-> "none",
              target |-> Some(door_openers[DefaultDoor(door_openers)].uid)]
        ELSE IF ~in.default_callable
        THEN [error |-> "not_configured", target |-> None]
        ELSE [error |-> "none", target |-> Some("default")]

\* handle_open_door up to its suspension in `await open_door_callable()`:
\* it has raised, or it has called the callable it chose and waits for it
\* (result "pending"); opened: the callables that were called
CallHandleOpenDoor ==
    /\ IsNone(svc_out)
    /\ LET chosen == HandleOpenDoor(svc_in)
       IN  svc_out' =
             IF chosen.error # "none"
             THEN Some([result |-> chosen.error, opened |-> <<>>])
             ELSE Some([result |-> "pending",
                        opened |-> <<Val(chosen.target)>>])
    /\ UNCHANGED <<svc_in, kfVars, btnVars, callVars, doorVars>>
    /\ UNCHANGED <<apiVars, faceVars, bgVars, expVars, relVars>>

\* the open callable has returned, or has raised IntersvyazApiError, which
\* the handler turns into HomeAssistantError
HandleOpenDoorDone(outcome) ==
    /\ ~IsNone(svc_out) /\ Val(svc_out).result = "pending"
    /\ svc_out' = Some([Val(svc_out) EXCEPT
                           !.result = IF outcome = "ok" THEN "ok"
                                      ELSE "open_failed"])
    /\ UNCHANGED <<svc_in, kfVars, btnVars, callVars, doorVars>>
    /\ UNCHANGED <<apiVars, faceVars, bgVars, expVars, relVars>>

InitSvc == svc_in = <<>> /\ svc_out = <<>>

\* no setup has run: hass.data holds nothing for the entry
InitDoors ==
    /\ build_in = <<>> /\ build_out = <<>>
    /\ door_store = <<>>
    /\ door_config = [mac |-> <<>>, relay_num |-> <<>>, entrance |-> <<>>,
                      address |-> <<>>, open_link |-> <<>>]
    /\ door_job = [pc |-> "idle", op |-> "none", fetched |-> <<>>,
                   result |-> "none"]

InitExt == InitKf /\ InitBtn /\ InitCall /\ InitSvc /\ InitDoors

-----------------------------------------------------------------------------
(* api.py: async_get_relays, the relay list merged from two categories.    *)

MaxBatch == 2

\* str.lower() and str.upper() on the identifiers of the model
LowerCase(s) ==
    CASE s = "E1" -> "e1" [] s = "AA" -> "aa" [] OTHER -> s
UpperCase(s) ==
    CASE s = "e1" -> "E1" [] s = "aa" -> "AA" [] OTHER -> s

\* Items of a relay list answer.  dict: the item is a JSON object (other
\* items are skipped); OPENER: absent, or the relay_id and relay_num.
RelayItems ==
    [dict : {TRUE},
     ENTRANCE_UID : {Some("e1"), Some("E1")},
     MAC_ADDR : {Some("aa"), Some("AA")},
     OPENER : {Some([relay_id |-> 1, relay_num |-> 1])}]
    \cup [dict : {TRUE},
          ENTRANCE_UID : {None, Some("e1")},
          MAC_ADDR : {Some("aa")},
          OPENER : {None}]
JunkItem ==
    [dict |-> FALSE, ENTRANCE_UID |-> None, MAC_ADDR |-> None,
     OPENER |-> None]

RECURSIVE SeqsUpTo(_, _)
SeqsUpTo(S, n) ==
    IF n = 0 THEN {<<>>}
    ELSE LET shorter == SeqsUpTo(S, n - 1)
         IN  shorter \cup {Append(q, x) : q \in shorter, x \in S}

\* What _request_mobile gives for one category: a network error or timeout,
\* a status >= 400, a body that is no JSON, a JSON value that is no list, or
\* a list of items.
RelayFailures == {"neterr", "http_error", "bad_json", "not_list"}
RelayAnswers ==
    {[kind |-> f, items |-> <<>>] : f \in RelayFailures}
    \cup {[kind |-> "list", items |-> q] :
            q \in SeqsUpTo(RelayItems \cup {JunkItem}, MaxBatch)}

\* _parse_relay_info; raw: the payload it was made from, identified by its
\* category and its place in the answer
ParseRelayInfo(item, is_shared, i) ==
    [entrance_uid |-> item.ENTRANCE_UID, mac |-> item.MAC_ADDR,
     opener |-> item.OPENER, raw |-> <<is_shared, i>>]

\* _async_fetch_relays_batch on a list answer: the items that are objects
RECURSIVE FetchRelaysBatch(_, _, _)
FetchRelaysBatch(items, is_shared, i) ==
    IF i > Len(items) THEN <<>>
    ELSE IF ~items[i].dict THEN FetchRelaysBatch(items, is_shared, i + 1)
    ELSE <<ParseRelayInfo(items[i], is_shared, i)>>
            \o FetchRelaysBatch(items, is_shared, i + 1)

\* a mutant: the key keeps the case of its strings
DedupeKeyCaseSensitive(r) ==
    <<IF IsNone(r.entrance_uid) THEN "" ELSE Val(r.entrance_uid),
      IF IsNone(r.mac) THEN "" ELSE Val(r.mac),
      IF IsNone(r.opener) THEN None ELSE Some(Val(r.opener).relay_id),
      IF IsNone(r.opener) THEN None ELSE Some(Val(r.opener).relay_num)>>

\* _collect_batch: dedupe_key
DedupeKey(r) ==
    <<IF IsNone(r.entrance_uid) THEN "" ELSE LowerCase(Val(r.entrance_uid)),
      IF IsNone(r.mac) THEN "" ELSE UpperCase(Val(r.mac)),
      IF IsNone(r.opener) THEN None ELSE Some(Val(r.opener).relay_id),
      IF IsNone(r.opener) THEN None ELSE Some(Val(r.opener).relay_num)>>

\* _collect_batch: the loop over a fetched batch
RECURSIVE CollectLoop(_, _, _)
CollectLoop(c, batch, i) ==
    IF i > Len(batch) THEN c
    ELSE IF DedupeKey(batch[i]) \in c.seen THEN CollectLoop(c, batch, i + 1)
    ELSE CollectLoop([c EXCEPT !.seen = @ \cup {DedupeKey(batch[i])},
                               !.batches = Append(@, batch[i])],
                     batch, i + 1)

\* a mutant: a failed category ends the whole call with its error
BatchFailedAborts(c) == [c EXCEPT !.pc = "error"]

\* _collect_batch: `except IntersvyazApiError` logs a warning and returns
BatchFailed(c) == c

\* _collect_batch for one answer
CollectBatch(c, answer, is_shared) ==
    IF answer.kind # "list" THEN BatchFailed(c)
    ELSE CollectLoop(c, FetchRelaysBatch(answer.items, is_shared, 1), 1)

IdleRelays ==
    [pc |-> "idle", include_shared |-> TRUE, batches |-> <<>>, seen |-> {},
     answers |-> <<>>]

\* async_get_relays up to its first await
GetRelaysStart(include_main, include_shared) ==
    /\ relay.pc = "idle"
    /\ relay' =
         IF ~include_main /\ ~include_shared
         THEN [IdleRelays EXCEPT !.pc = "done"]
         ELSE IF ~EnsureMobileToken(mobile_token, now)
         THEN [IdleRelays EXCEPT !.pc = "error"]
         ELSE [IdleRelays EXCEPT
                 !.pc = IF include_main THEN "main" ELSE "shared",
                 !.include_shared = include_shared]
    /\ UNCHANGED <<sort_in, sort_out, match_in, match_out>>
    /\ UNCHANGED <<apiVars, faceVars, bgVars, expVars, extVars>>

\* the answer of one category arrives; the next category is requested or
\* the merged list is returned
RelaysAnswer(answer) ==
    /\ relay.pc \in {"main", "shared"}
    /\ LET is_shared == IF relay.pc = "main" THEN 0 ELSE 1
           logged == [relay EXCEPT
                        !.answers = Append(@, [is_shared |-> is_shared,
                                               answer |-> answer])]
           c == CollectBatch(logged, answer, is_shared)
       IN  relay' =
             IF c.pc = "error" THEN c
             ELSE IF relay.pc = "main" /\ relay.include_shared
             THEN [c EXCEPT !.pc = "shared"]
             ELSE [c EXCEPT !.pc = "done"]
    /\ UNCHANGED <<sort_in, sort_out, match_in, match_out>>
    /\ UNCHANGED <<apiVars, faceVars, bgVars, expVars, extVars>>

InitRel ==
    /\ relay = IdleRelays
    /\ sort_in = <<>>
    /\ sort_out = <<>>
    /\ match_in = <<>>
    /\ match_out = <<>>

InitExp ==
    /\ exp_in = <<>>
    /\ exp_out = <<>>

Init == InitApi /\ InitFace /\ InitBg /\ InitExt /\ InitExp /\ InitRel

Next ==
    \/ \E p \in Sequential : OpenDoorStart(p)
    \/ \E p \in Sequential, link \in OpenLinks : OpenDoorWithLink(p, link)
    \/ \E p \in Sequential : AuthenticateCrmStart(p)
    \/ \E p \in Sequential : CrmAuthResponse(p)
    \/ \E p \in Sequential : OpenResponse(p)
    \/ SetMobileToken
    \/ AsyncGetMobileToken
    \/ SetCrmToken
    \/ Tick

Spec == Init /\ [][Next]_vars

-----------------------------------------------------------------------------
(* The face manager, its callers taking turns.                             *)

FaceSequential == {"background"}

NextFace ==
    \/ \E c \in FaceSequential, d \in Doors, img \in Images, cb \in BOOLEAN :
          ProcessImageStart(FirstManager, c, d, img, cb)
    \/ \E c \in FaceSequential : MatchDone(c)
    \/ \E c \in FaceSequential, ok \in BOOLEAN : OpenDone(c, ok)
    \/ TickMono

InitFaceSpec == InitApi /\ InitFaceAny /\ InitBg /\ InitExt /\ InitExp /\ InitRel

SpecFace == InitFaceSpec /\ [][NextFace]_vars

-----------------------------------------------------------------------------
(* The face manager processing frames while known faces are removed and    *)
(* added: the executor job of async_process_image reads the list that the  *)
(* event loop replaces.                                                    *)

\* the manager in service with two known faces and the library at hand; the
\* monotonic clock has run for a cooldown period
InitFaceRace ==
    /\ InitApi /\ InitBg /\ InitExp /\ InitRel
    /\ InitBtn /\ InitCall /\ InitSvc /\ InitDoors
    /\ mono = CooldownSeconds
    /\ library_available = TRUE
    /\ door_cooldown = OfFirst(NoCooldown)
    /\ fp = [c \in FaceCallers |-> IdleFp]
    /\ match_log = <<>>
    /\ known_faces =
          OfFirst(<<KnownFace("bob", "v1"), KnownFace("alice", "v1")>>)
    /\ stored_faces = StoreFaces(known_faces[FirstManager])
    /\ face_lock = OfFirst(FALSE)
    /\ face_op = [o \in FaceOps |-> IdleFaceOp]

NextFaceRace ==
    \/ \E d \in Doors, img \in {AliceImage, StrangerImage} :
          ProcessImageStart(FirstManager, "camera", d, img, TRUE)
    \/ MatchDone("camera")
    \/ \E ok \in BOOLEAN : OpenDone("camera", ok)
    \/ TickMono
    \/ AsyncAddKnownFace(FirstManager, "o1", "alice",
                          [empty |-> FALSE, encoding |-> Some("v1")])
    \/ AddEncodingDone("o1")
    \/ AsyncRemoveKnownFace(FirstManager, "o1", "alice")

SpecFaceRace == InitFaceRace /\ [][NextFaceRace]_vars

-----------------------------------------------------------------------------
(* The face manager called for one door by the camera entity and by the    *)
(* background cycle, each from its own task.                               *)

\* the door both callers hand frames in for
SharedDoor == "d1"

NextFaceConcurrent ==
    \/ \E c \in FaceCallers, img \in Images, cb \in BOOLEAN :
          ProcessImageStart(FirstManager, c, SharedDoor, img, cb)
    \/ \E c \in FaceCallers : MatchDone(c)
    \/ \E c \in FaceCallers, ok \in BOOLEAN : OpenDone(c, ok)
    \/ TickMono

\* the manager in service with one known face and the library at hand
InitFaceConcurrent ==
    /\ InitApi /\ InitBg /\ InitExt /\ InitExp /\ InitRel
    /\ mono \in 0..MaxMono
    /\ known_faces = OfFirst(<<KnownFace("alice", "v1")>>)
    /\ library_available = TRUE
    /\ door_cooldown = OfFirst(NoCooldown)
    /\ fp = [c \in FaceCallers |-> IdleFp]
    /\ match_log = <<>>

SpecFaceConcurrent == InitFaceConcurrent /\ [][NextFaceConcurrent]_vars

-----------------------------------------------------------------------------
(* The background processor.                                               *)

\* the image of the face the cycles know: async_add_known_face finds the
\* encoding v1 in it
FirstFace == [empty |-> FALSE, encoding |-> Some("v1")]

\* the frames the cameras give a cycle: without a face or one the face
\* library fails on (QuietFrames), or with a known face
QuietFrames == {NoFaceImage, FaultyImage}
CycleFrames == QuietFrames \cup {AliceImage}

\* The entry is set up, no door with a camera is listed yet; hass.data
\* holds the face manager of the entry, which knows one face (the options
\* flow has made it from the stored list); the monotonic clock has run for
\* a cooldown period.
InitCycle ==
    /\ InitApi /\ InitExp /\ InitRel
    /\ InitBtn /\ InitCall /\ InitSvc /\ InitDoors
    /\ selected_uids = {}
    /\ unsubscribe = FALSE
    /\ lock = FALSE
    /\ task = [t \in BgTasks |-> IdleTask]
    /\ doors = {}
    /\ manager = Some(FirstManager)
    /\ skipped = FALSE
    /\ torn_down = FALSE
    /\ mono = CooldownSeconds
    /\ known_faces = OfFirst(<<KnownFace("alice", "v1")>>)
    /\ stored_faces = StoreFaces(known_faces[FirstManager])
    /\ face_lock = OfFirst(FALSE)
    /\ face_op = [o \in FaceOps |-> IdleFaceOp]
    /\ library_available = TRUE
    /\ door_cooldown = OfFirst(NoCooldown)
    /\ fp = [c \in FaceCallers |-> IdleFp]
    /\ match_log = <<>>

\* The known face is removed and added again through the options flow
\* while the cycles run: each save changes the list the cycles read and puts
\* the manager into hass.data.
NextBg ==
    \/ \E t \in BgTasks : TimerTick(t)
    \/ \E t \in BgTasks : TaskStart(t)
    \/ \E t \in BgTasks : AsyncForceCycle(t)
    \/ \E t \in BgTasks, outcome \in FetchOutcomes, img \in QuietFrames :
          FetchDone(t, outcome, img, TRUE)
    \/ \E t \in BgTasks : ProcessMatchDone(t)
    \/ AsyncStop
    \/ Teardown
    \/ \E option \in {None} \cup {Some(S) : S \in SUBSET BgDoors} :
          AsyncRefreshFromOptions(option)
    \/ \E available \in SUBSET BgDoors : DoorsReplaced(available)
    \/ /\ known_faces[FirstManager] # <<>>
       /\ AsyncRemoveKnownFace(FirstManager, "o1", "alice")
    \/ /\ known_faces[FirstManager] = <<>>
       /\ AsyncAddKnownFace(FirstManager, "o1", "alice", FirstFace)
    \/ AddEncodingDone("o1")

SpecBg == InitCycle /\ [][NextBg]_vars

\* One invocation of the cycle at a time, with frames of a known face.
NextBgFaces ==
    \/ TimerTick("t1")
    \/ TaskStart("t1")
    \/ AsyncForceCycle("t1")
    \/ \E outcome \in FetchOutcomes, img \in CycleFrames, cb \in BOOLEAN :
          FetchDone("t1", outcome, img, cb)
    \/ ProcessMatchDone("t1")
    \/ \E ok \in BOOLEAN : ProcessOpenDone("t1", ok)
    \/ AsyncStop
    \/ \E option \in {None} \cup {Some(S) : S \in SUBSET BgDoors} :
          AsyncRefreshFromOptions(option)
    \/ \E available \in SUBSET BgDoors, lost \in SUBSET BgDoors :
          DoorsChange(available, lost)
    \/ /\ known_faces[FirstManager] # <<>>
       /\ AsyncRemoveKnownFace(FirstManager, "o1", "alice")

SpecBgFaces == InitCycle /\ [][NextBgFaces]_vars

-----------------------------------------------------------------------------
(* The face manager without its library (face_recognition could not be     *)
(* imported when the manager was made), called by the camera entity and by *)
(* the background cycle, one invocation of the cycle at a time.            *)

InitNoLibrary ==
    /\ InitApi /\ InitExp /\ InitRel
    /\ InitBtn /\ InitCall /\ InitSvc /\ InitDoors
    /\ selected_uids = {}
    /\ unsubscribe = FALSE
    /\ lock = FALSE
    /\ task = [t \in BgTasks |-> IdleTask]
    /\ doors = {}
    /\ manager = Some(FirstManager)
    /\ skipped = FALSE
    /\ torn_down = FALSE
    /\ mono \in 0..MaxMono
    /\ known_faces \in
          {OfFirst(known) : known \in {<<>>, <<KnownFace("alice", "v1")>>}}
    /\ stored_faces = StoreFaces(known_faces[FirstManager])
    /\ face_lock = OfFirst(FALSE)
    /\ face_op = [o \in FaceOps |-> IdleFaceOp]
    /\ library_available = FALSE
    /\ door_cooldown = OfFirst(NoCooldown)
    /\ fp = [c \in FaceCallers |-> IdleFp]
    /\ match_log = <<>>

NextNoLibrary ==
    \/ \E d \in Doors, img \in Images, cb \in BOOLEAN :
          ProcessImageStart(FirstManager, "camera", d, img, cb)
    \/ TimerTick("t1")
    \/ TaskStart("t1")
    \/ AsyncForceCycle("t1")
    \/ \E outcome \in FetchOutcomes, img \in Images, cb \in BOOLEAN :
          FetchDone("t1", outcome, img, cb)
    \/ \E option \in {None} \cup {Some(S) : S \in SUBSET BgDoors} :
          AsyncRefreshFromOptions(option)
    \/ \E available \in SUBSET BgDoors, lost \in SUBSET BgDoors :
          DoorsChange(available, lost)
    \/ /\ known_faces[FirstManager] # <<>>
       /\ AsyncRemoveKnownFace(FirstManager, "o1", "alice")
    \/ /\ known_faces[FirstManager] = <<>>
       /\ AsyncAddKnownFace(FirstManager, "o1", "alice", FirstFace)

SpecNoLibrary == InitNoLibrary /\ [][NextNoLibrary]_vars

-----------------------------------------------------------------------------
(* Two callers of async_open_door at a time.  The client holds a valid     *)
(* mobile token; its CRM token is absent or about to expire.               *)

InitConcurrent ==
    /\ now = 0
    /\ mobile_token = Some([token |-> "m1", access_end |-> None])
    /\ crm_token \in
          {None,
           Some([token |-> "c1",
                 access_end |-> Some(TOKEN_EXPIRATION_MARGIN + 1)])}
    /\ call = [p \in Callers |-> IdleCall]
    /\ InitFace /\ InitBg /\ InitExt /\ InitExp /\ InitRel

\* each caller makes one call
FirstOpenDoor(p) == call[p].op = "none" /\ OpenDoorStart(p)

NextConcurrent ==
    \/ \E p \in Callers : FirstOpenDoor(p)
    \/ \E p \in Callers : CrmAuthResponse(p)
    \/ \E p \in Callers : OpenResponse(p)
    \/ Tick

SpecConcurrent == InitConcurrent /\ [][NextConcurrent]_vars

-----------------------------------------------------------------------------
(* The door button.  The open callable answers every call and the sleep of *)
(* the reset task ends, unless the task is cancelled.                      *)

NextButton ==
    \/ \E q \in Pressers : AsyncPress(q)
    \/ \E q \in Pressers, outcome \in CallableOutcomes :
          AsyncPressDone(q, outcome)
    \/ ResetAfterDelay
    \/ AsyncWillRemoveFromHass

SpecButton == Init /\ [][NextButton]_vars

\* the door button while the wall clock advances
NextButtonClock ==
    \/ NextButton
    \/ Tick

SpecButtonClock == Init /\ [][NextButtonClock]_vars

SpecButtonLive ==
    /\ Init /\ [][NextButton]_vars
    /\ \A q \in Pressers :
          WF_vars(\E outcome \in CallableOutcomes : AsyncPressDone(q, outcome))
    /\ WF_vars(ResetAfterDelay)

-----------------------------------------------------------------------------
(* The open_door service on drawn calls.  The doors of an entry have       *)
(* distinct uids (seen_uids of async_setup_entry).                         *)

DoorOpenerLists ==
    {q \in SeqsUpTo([uid : DoorUids, is_main : BOOLEAN], MaxOpeners) :
        \A i, j \in 1..Len(q) : q[i].uid = q[j].uid => i = j}

InitService ==
    /\ InitApi /\ InitFace /\ InitBg /\ InitExp /\ InitRel
    /\ InitKf /\ InitBtn /\ InitCall /\ InitDoors
    /\ svc_in \in [entry_known : BOOLEAN,
                    door_uid : {None, Some(""), Some("u2"), Some("u9")},
                    door_openers : DoorOpenerLists,
                    default_callable : BOOLEAN]
    /\ svc_out = None

NextService ==
    \/ CallHandleOpenDoor
    \/ \E outcome \in ApiOutcomes : HandleOpenDoorDone(outcome)

SpecService == InitService /\ [][NextService]_vars

-----------------------------------------------------------------------------
(* The list of known faces.  The options hold what _async_store_faces      *)
(* wrote, possibly with damaged items.                                     *)

StoredLists ==
    {<<>>,
     <<AsDict(KnownFace("alice", "v1"))>>,
     <<AsDict(KnownFace("bob", "v1")), AsDict(KnownFace("alice", "v1"))>>}
    \cup {<<j, AsDict(KnownFace("bob", "v1"))>> : j \in JunkStored}

InitFaces ==
    /\ InitApi /\ InitBg /\ InitExp /\ InitRel
    /\ InitBtn /\ InitCall /\ InitSvc /\ InitDoors
    /\ mono = 0
    /\ library_available \in BOOLEAN
    /\ door_cooldown = OfFirst(NoCooldown)
    /\ fp = [c \in FaceCallers |-> IdleFp]
    /\ match_log = <<>>
    /\ stored_faces \in StoredLists
    /\ known_faces = OfFirst(LoadKnownFacesFromEntry(stored_faces, 1))
    /\ face_lock = OfFirst(FALSE)
    /\ face_op = [o \in FaceOps |-> IdleFaceOp]

NextFaces ==
    \/ \E m \in Managers, o \in FaceOps, name \in Names, image \in AddImages :
          AsyncAddKnownFace(m, o, name, image)
    \/ \E o \in FaceOps : AddEncodingDone(o)
    \/ \E m \in Managers, o \in FaceOps, name \in Names :
          AsyncRemoveKnownFace(m, o, name)
    \/ \E o \in FaceOps : FaceLockAcquired(o)
    \/ AsyncResolveFaceManager

SpecFaces == InitFaces /\ [][NextFaces]_vars

-----------------------------------------------------------------------------
(* The expiry predicate on drawn inputs.                                   *)

ExpEnds ==
    {None} \cup {Some(e) : e \in 0..(TOKEN_EXPIRATION_MARGIN + MaxNow + 1)}

InitExpiry ==
    /\ InitApi /\ InitFace /\ InitBg /\ InitExt /\ InitRel
    /\ exp_in \in {"mobile", "crm"} \X ExpEnds \X (0..MaxNow)
    /\ exp_out = None

\* MobileToken.is_expired read at time exp_in[3]
EvalMobileIsExpired ==
    /\ exp_in[1] = "mobile" /\ IsNone(exp_out)
    /\ exp_out' = Some(MobileIsExpired(exp_in[2], exp_in[3]))
    /\ UNCHANGED <<exp_in, apiVars, faceVars, bgVars, relVars, extVars>>

\* CrmToken.is_expired read at time exp_in[3]
EvalCrmIsExpired ==
    /\ exp_in[1] = "crm" /\ IsNone(exp_out)
    /\ exp_out' = Some(CrmIsExpired(exp_in[2], exp_in[3]))
    /\ UNCHANGED <<exp_in, apiVars, faceVars, bgVars, relVars, extVars>>

NextExpiry == EvalMobileIsExpired \/ EvalCrmIsExpired

SpecExpiry == InitExpiry /\ [][NextExpiry]_vars

-----------------------------------------------------------------------------
(* The relay list.  The client holds a mobile token restored by            *)
(* set_mobile_token, or none.                                              *)

InitRelays ==
    /\ now = 0
    /\ mobile_token \in {None, Some([token |-> "m1", access_end |-> None])}
    /\ crm_token = None
    /\ call = [p \in Callers |-> IdleCall]
    /\ InitFace /\ InitBg /\ InitExt /\ InitExp /\ InitRel

NextRelays ==
    \/ \E include_main \in BOOLEAN, include_shared \in BOOLEAN :
          GetRelaysStart(include_main, include_shared)
    \/ \E answer \in RelayAnswers : RelaysAnswer(answer)

SpecRelays == InitRelays /\ [][NextRelays]_vars

-----------------------------------------------------------------------------
(* __init__.py: _sort_relays.                                              *)

MaxRelays == 3

\* Addresses as sequences of code points: "", "B", "a", "b", "aB".
Addresses == {<<>>, <<66>>, <<97>>, <<98>>, <<97, 66>>}

\* str.lower() on ASCII code points
StrLower(cs) ==
    [i \in 1..Len(cs) |-> IF cs[i] >= 65 /\ cs[i] <= 90 THEN cs[i] + 32
                          ELSE cs[i]]

\* str < str: comparison by code points, a proper prefix first
RECURSIVE StrLess(_, _)
StrLess(a, b) ==
    IF b = <<>> THEN FALSE
    ELSE IF a = <<>> THEN TRUE
    ELSE IF Head(a) # Head(b) THEN Head(a) < Head(b)
    ELSE StrLess(Tail(a), Tail(b))

\* a mutant: the addresses are compared as written
SortKeyCaseSensitive(r) == <<~r.is_main, r.address>>

\* the key of _sort_relays: (not is_main, (address or "").lower())
SortKey(r) == <<~r.is_main, StrLower(r.address)>>

\* tuple comparison: False before True, then the addresses
KeyLess(k1, k2) ==
    IF k1[1] # k2[1] THEN ~k1[1] ELSE StrLess(k1[2], k2[2])

\* sorted() is stable: an element goes behind the ones whose key is not
\* greater than its own
RECURSIVE InsertSorted(_, _)
InsertSorted(out, r) ==
    IF out = <<>> THEN <<r>>
    ELSE IF KeyLess(SortKey(r), SortKey(Head(out))) THEN <<r>> \o out
    ELSE <<Head(out)>> \o InsertSorted(Tail(out), r)

RECURSIVE SortFrom(_, _, _)
SortFrom(relays, i, out) ==
    IF i > Len(relays) THEN out
    ELSE SortFrom(relays, i + 1, InsertSorted(out, relays[i]))

\* _sort_relays
SortRelays(relays) == SortFrom(relays, 1, <<>>)

\* The lists handed to _sort_relays; raw: the place of a relay in the list.
SortInputs ==
    UNION {[1..n -> [is_main : BOOLEAN, address : Addresses]] :
              n \in 0..MaxRelays}

InitSort ==
    /\ InitApi /\ InitFace /\ InitBg /\ InitExt /\ InitExp
    /\ relay = IdleRelays
    /\ \E q \in SortInputs :
          sort_in = [i \in 1..Len(q) |->
                        [is_main |-> q[i].is_main, address |-> q[i].address,
                         raw |-> i]]
    /\ sort_out = None
    /\ match_in = <<>>
    /\ match_out = <<>>

\* enumerate(_sort_relays(relays), start=1)
CallSortRelays ==
    /\ IsNone(sort_out)
    /\ sort_out' = Some(SortRelays(sort_in))
    /\ UNCHANGED <<relay, sort_in, match_in, match_out>>
    /\ UNCHANGED <<apiVars, faceVars, bgVars, expVars, extVars>>

NextSort == CallSortRelays

SpecSort == InitSort /\ [][NextSort]_vars

-----------------------------------------------------------------------------
(* __init__.py: the door entries of a configuration entry.                 *)

EntryId == "entry1"

\* MAC strings of the model: empty, blank, and addresses as the server and
\* the configuration write them
MacStrings == {"", " ", "aa:01", "AA:01", "bb02"}

\* str.strip(), str.upper() and str.replace(":", "").lower() on them
MacStrip(s) == IF s = " " THEN "" ELSE s
MacUpper(s) ==
    CASE s = "aa:01" -> "AA:01" [] s = "bb02" -> "BB02" [] OTHER -> s
MacUidPart(s) ==
    CASE s \in {"aa:01", "AA:01"} -> "aa01" [] s = "BB02" -> "bb02"
      [] OTHER -> s

\* the truth value of an optional string
Truthy(o) == ~IsNone(o) /\ Val(o) # ""

\* int(relay.porch_num): None stands for the ValueError
PorchNums == {None, Some("3"), Some("x")}
ParseInt(s) == IF s = "3" THEN Some(3) ELSE None

\* RelayOpener and RelayInfo as _build_door_entry_payload reads them
DoorOpeners ==
    {None} \cup {Some(o) : o \in [relay_num : {None, Some(2)},
                                  mac : {None, Some("bb02")}]}
DoorLinks == {None, Some(""), Some("l1"), Some("l2")}
BuildRelays ==
    [mac : {None} \cup {Some(m) : m \in MacStrings \ {"bb02"}},
     opener : DoorOpeners, porch_num : PorchNums,
     address : {<<>>, <<97>>}, is_main : BOOLEAN, open_link : DoorLinks]

\* mac_candidate: ((relay.mac or "") or (opener.mac if opener and
\* opener.mac else "")).strip()
MacCandidate(r) ==
    MacStrip(IF Truthy(r.mac) THEN Val(r.mac)
             ELSE IF ~IsNone(r.opener) /\ Truthy(Val(r.opener).mac)
             THEN Val(Val(r.opener).mac)
             ELSE "")

\* door_id: the opener's relay_num, else int(porch_num), else 1
DoorIdOf(r) ==
    IF ~IsNone(r.opener) /\ ~IsNone(Val(r.opener).relay_num)
    THEN Val(Val(r.opener).relay_num)
    ELSE IF Truthy(r.porch_num) /\ ~IsNone(ParseInt(Val(r.porch_num)))
    THEN Val(ParseInt(Val(r.porch_num)))
    ELSE 1

\* f"{entry_id}_door_{mac_normalized.replace(':', '').lower()}_{door_id}",
\* kept as the tuple of its parts
DoorUid(entry_id, mac_normalized, door_id) ==
    <<entry_id, "door", MacUidPart(mac_normalized), door_id>>

\* f"Домофон №{index}" as code points
DefaultAddress(index) == <<1044, 48 + index>>

\* an optional string after `.strip() or None`
StripOrNone(o) == IF Truthy(o) THEN o ELSE None

\* _build_door_entry_payload: None, or the payload of the door
BuildDoorEntryPayload(entry_id, r, index) ==
    LET mac_candidate == MacCandidate(r)
        mac_normalized == MacUpper(mac_candidate)
        door_id == DoorIdOf(r)
    IN  IF mac_candidate = "" THEN None
        ELSE Some([uid |-> DoorUid(entry_id, mac_normalized, door_id),
                   mac |-> mac_normalized,
                   door_id |-> door_id,
                   address |-> IF r.address = <<>> THEN DefaultAddress(index)
                               ELSE r.address,
                   is_main |-> r.is_main,
                   porch_num |-> r.porch_num,
                   open_link |-> StripOrNone(r.open_link)])

\* the configurations drawn for a setup
Configs ==
    [mac : {None, Some("aa:01")}, relay_num : {None, Some(2)},
     entrance : PorchNums, address : {None, Some(<<97>>)},
     open_link : {None}]

\* async_setup_entry or _async_refresh_door_links: pc, where it stands;
\* fetched, what async_get_relays gave it (None: IntersvyazApiError, else
\* Some(the list)); result, how it ended
IdleJob == [pc |-> "idle", op |-> "none", fetched |-> None, result |-> "none"]

\* the relays async_get_relays hands to the setup and to the refresh
MaxDoorRelays == 2
SetupRelays ==
    {[mac |-> m, opener |-> None, porch_num |-> None, address |-> <<97>>,
      is_main |-> v[1], open_link |-> Some(v[2])] :
        m \in {None, Some("aa:01"), Some("AA:01"), Some("bb02")},
        v \in {<<TRUE, "l1">>, <<FALSE, "l2">>}}
FetchResults == {None} \cup {Some(q) : q \in SeqsUpTo(SetupRelays, MaxDoorRelays)}

\* a mutant: a uid that was seen before is taken again
SeenBeforeNever(uid, seen_uids) == FALSE

\* async_setup_entry: `if door_uid in seen_uids: continue`
SeenBefore(uid, seen_uids) == uid \in seen_uids

\* async_setup_entry, the loop over enumerate(_sort_relays(relays), start=1);
\* callback: the callable made for the entry, named by its place
RECURSIVE SetupLoop(_, _, _)
SetupLoop(sorted, index, door_openers) ==
    IF index > Len(sorted) THEN door_openers
    ELSE LET door_payload == BuildDoorEntryPayload(EntryId, sorted[index], index)
             seen_uids == {door_openers[i].uid : i \in 1..Len(door_openers)}
         IN  IF IsNone(door_payload) \/ SeenBefore(Val(door_payload).uid, seen_uids)
             THEN SetupLoop(sorted, index + 1, door_openers)
             ELSE SetupLoop(sorted, index + 1,
                    Append(door_openers,
                           [uid |-> Val(door_payload).uid,
                            mac |-> Val(door_payload).mac,
                            door_id |-> Val(door_payload).door_id,
                            address |-> Val(door_payload).address,
                            is_main |-> Val(door_payload).is_main,
                            porch_num |-> Val(door_payload).porch_num,
                            open_link |-> Val(door_payload).open_link,
                            callback |-> Len(door_openers) + 1]))

\* int(config_data.get(CONF_RELAY_NUM, config_data.get(CONF_DOOR_ENTRANCE, 1))):
\* None stands for the TypeError or ValueError
FallbackDoorId(config) ==
    IF ~IsNone(config.relay_num) THEN config.relay_num
    ELSE IF IsNone(config.entrance) THEN None
    ELSE ParseInt(Val(config.entrance))

\* async_setup_entry: the fallback door of the stored configuration;
\* fallback_address is config_data.get(CONF_DOOR_ADDRESS) or "Домофон", as
\* code points
FallbackEntry(config) ==
    LET fallback_mac == MacUpper(IF Truthy(config.mac) THEN Val(config.mac)
                                 ELSE "")
        fallback_door_id == Val(FallbackDoorId(config))
        fallback_address ==
            IF IsNone(config.address) \/ config.address = Some(<<>>)
            THEN <<1044>>
            ELSE Val(config.address)
    IN  [uid |-> IF fallback_mac # ""
                 THEN DoorUid(EntryId, fallback_mac, fallback_door_id)
                 ELSE <<EntryId, "door", "fallback", fallback_door_id>>,
         mac |-> fallback_mac,
         door_id |-> fallback_door_id,
         address |-> fallback_address,
         is_main |-> TRUE,
         porch_num |-> config.entrance,
         open_link |-> config.open_link,
         callback |-> 1]

\* _sync_config_with_primary_door: the configuration takes the fields of
\* the first main door, else of the first door
SyncConfig(config, door_openers) ==
    LET primary == door_openers[DefaultDoor(door_openers)]
    IN  [mac |-> Some(primary.mac), relay_num |-> Some(primary.door_id),
         entrance |-> primary.porch_num,
         address |-> Some(primary.address),
         open_link |-> primary.open_link]

\* hass.data[DOMAIN][entry_id] as async_setup_entry writes it; config_data:
\* its DATA_CONFIG
StoreOf(door_openers, config_data) ==
    [door_openers |-> door_openers,
     open_door |-> door_openers[DefaultDoor(door_openers)].callback,
     face_manager |-> None,
     config |-> Some(config_data)]

\* async_setup_entry up to `await api_client.async_get_relays()`
SetupStart ==
    /\ door_job.pc = "idle" /\ IsNone(door_store)
    /\ door_job' = [IdleJob EXCEPT !.pc = "setup_fetch", !.op = "setup"]
    /\ UNCHANGED <<build_in, build_out, door_store, door_config>>
    /\ UNCHANGED <<kfVars, btnVars, callVars, svcVars>>
    /\ UNCHANGED <<apiVars, faceVars, bgVars, expVars, relVars>>

\* the rest of async_setup_entry: a failed fetch gives no relays, an empty
\* door list gets the fallback door (the setup raises when its door id is
\* no number), the store is written and the configuration synchronised
SetupDone(fetched) ==
    /\ door_job.pc = "setup_fetch"
    /\ LET relays == IF IsNone(fetched) THEN <<>> ELSE Val(fetched)
           built == SetupLoop(SortRelays(relays), 1, <<>>)
       IN  IF built = <<>> /\ IsNone(FallbackDoorId(door_config))
           THEN /\ door_job' = [door_job EXCEPT !.pc = "idle",
                                    !.fetched = fetched, !.result = "raised"]
                /\ UNCHANGED <<door_store, door_config>>
           ELSE LET door_openers == IF built = <<>>
                                    THEN <<FallbackEntry(door_config)>>
                                    ELSE built
                    config_data ==
                        ConfigData(entry_data,
                                   SyncConfig(door_config, door_openers))
                IN  /\ door_store' = Some(StoreOf(door_openers, config_data))
                    /\ door_config' = config_data.door
                    /\ door_job' = [door_job EXCEPT !.pc = "idle",
                                        !.fetched = fetched, !.result = "ok"]
    /\ UNCHANGED <<build_in, build_out>>
    /\ UNCHANGED <<kfVars, btnVars, callVars, svcVars>>
    /\ UNCHANGED <<apiVars, faceVars, bgVars, expVars, relVars>>

\* a mutant: a relay whose uid is not in the list gets an entry of its own
NewDoorAppended(door_openers, payload) ==
    Append(door_openers,
           [uid |-> payload.uid, mac |-> payload.mac,
            door_id |-> payload.door_id, address |-> payload.address,
            is_main |-> payload.is_main, porch_num |-> payload.porch_num,
            open_link |-> payload.open_link,
            callback |-> Len(door_openers) + 1])

\* _async_refresh_door_links: `if not door_entry: ... continue`
NewDoor(door_openers, payload) == door_openers

\* _async_refresh_door_links: `for key, value in payload.items()` on the
\* entry of the payload's uid; the keys uid and callback keep their values
Overwritten(door_entry, payload) ==
    [uid |-> door_entry.uid, mac |-> payload.mac,
     door_id |-> payload.door_id, address |-> payload.address,
     is_main |-> payload.is_main, porch_num |-> payload.porch_num,
     open_link |-> payload.open_link, callback |-> door_entry.callback]

\* _async_refresh_door_links, the loop over
\* enumerate(_sort_relays(relays), start=1)
RECURSIVE RefreshLoop(_, _, _)
RefreshLoop(sorted, index, door_openers) ==
    IF index > Len(sorted) THEN door_openers
    ELSE LET payload == BuildDoorEntryPayload(EntryId, sorted[index], index)
             place == IF IsNone(payload) THEN 0
                      ELSE FindDoor(door_openers, Val(payload).uid)
         IN  IF IsNone(payload) THEN RefreshLoop(sorted, index + 1, door_openers)
             ELSE IF place = 0
             THEN RefreshLoop(sorted, index + 1,
                              NewDoor(door_openers, Val(payload)))
             ELSE RefreshLoop(sorted, index + 1,
                    [door_openers EXCEPT
                        ![place] = Overwritten(@, Val(payload))])

\* _scheduled_refresh: _async_refresh_door_links up to
\* `await api_client.async_get_relays()`
RefreshStart ==
    /\ door_job.pc = "idle" /\ ~IsNone(door_store)
    /\ door_job' = [IdleJob EXCEPT !.pc = "refresh_fetch", !.op = "refresh"]
    /\ UNCHANGED <<build_in, build_out, door_store, door_config>>
    /\ UNCHANGED <<kfVars, btnVars, callVars, svcVars>>
    /\ UNCHANGED <<apiVars, faceVars, bgVars, expVars, relVars>>

\* the rest of _async_refresh_door_links: it returns on a failed fetch, when
\* the store is gone and when the store lists no door; else it updates the
\* entries in place,
\* synchronises the configuration and stores the primary door's callable
RefreshDone(fetched) ==
    /\ door_job.pc = "refresh_fetch"
    /\ IF IsNone(fetched)
       THEN /\ door_job' = [door_job EXCEPT !.pc = "idle",
                                !.fetched = fetched, !.result = "fetch_failed"]
            /\ UNCHANGED <<door_store, door_config, entry_data>>
       ELSE IF IsNone(door_store)
       THEN /\ door_job' = [door_job EXCEPT !.pc = "idle",
                                !.fetched = fetched, !.result = "no_store"]
            /\ UNCHANGED <<door_store, door_config, entry_data>>
       ELSE IF Val(door_store).door_openers = <<>>
       THEN /\ door_job' = [door_job EXCEPT !.pc = "idle",
                                !.fetched = fetched, !.result = "no_doors"]
            /\ UNCHANGED <<door_store, door_config, entry_data>>
       ELSE LET stored == Val(door_store)
                door_openers ==
                    RefreshLoop(SortRelays(Val(fetched)), 1,
                                stored.door_openers)
                base == IF IsNone(stored.config)
                        THEN ConfigData(entry_data, door_config)
                        ELSE Val(stored.config)
                config_data ==
                    ConfigData(base.tokens,
                               SyncConfig(base.door, door_openers))
                changed == config_data # base
            IN  /\ door_store' =
                      Some([StoreOf(door_openers, config_data) EXCEPT
                              !.face_manager = stored.face_manager,
                              !.config = IF changed THEN Some(config_data)
                                         ELSE stored.config])
                /\ door_config' = IF changed THEN config_data.door
                                  ELSE door_config
                /\ entry_data' = IF changed THEN config_data.tokens
                                 ELSE entry_data
                /\ door_job' = [door_job EXCEPT !.pc = "idle",
                                    !.fetched = fetched, !.result = "ok"]
    /\ UNCHANGED <<build_in, build_out, opener, entry_loaded>>
    /\ UNCHANGED <<kfVars, btnVars, svcVars>>
    /\ UNCHANGED <<apiVars, faceVars, bgVars, expVars, relVars>>

\* async_unload_entry: the store of the entry is popped from hass.data
UnloadDoors ==
    /\ ~IsNone(door_store)
    /\ door_store' = None
    /\ UNCHANGED <<build_in, build_out, door_config, door_job>>
    /\ UNCHANGED <<kfVars, btnVars, callVars, svcVars>>
    /\ UNCHANGED <<apiVars, faceVars, bgVars, expVars, relVars>>

\* _build_door_entry_payload called on the drawn relay
CallBuildDoorEntryPayload ==
    /\ build_in # <<>> /\ build_out = <<>>
    /\ build_out' = <<BuildDoorEntryPayload(EntryId, build_in[1], build_in[2])>>
    /\ UNCHANGED <<build_in, door_store, door_config, door_job>>
    /\ UNCHANGED <<kfVars, btnVars, callVars, svcVars>>
    /\ UNCHANGED <<apiVars, faceVars, bgVars, expVars, relVars>>

InitBuild ==
    /\ InitApi /\ InitFace /\ InitBg /\ InitExp /\ InitRel
    /\ InitKf /\ InitBtn /\ InitCall /\ InitSvc
    /\ build_in \in BuildRelays \X {1, 2}
    /\ build_out = <<>>
    /\ door_store = None
    /\ door_config = NoConfig
    /\ door_job = IdleJob

NextBuild == CallBuildDoorEntryPayload

SpecBuild == InitBuild /\ [][NextBuild]_vars

\* The door list from the setup on: the configuration is the one the config
\* flow or an earlier setup has stored.
InitDoorList ==
    /\ InitApi /\ InitFace /\ InitBg /\ InitExp /\ InitRel
    /\ InitKf /\ InitBtn /\ InitCall /\ InitSvc
    /\ build_in = <<>> /\ build_out = <<>>
    /\ door_store = None
    /\ door_config \in Configs
    /\ door_job = IdleJob

NextDoorList ==
    \/ SetupStart
    \/ \E fetched \in FetchResults : SetupDone(fetched)
    \/ RefreshStart
    \/ \E fetched \in FetchResults : RefreshDone(fetched)
    \/ UnloadDoors

SpecDoorList == InitDoorList /\ [][NextDoorList]_vars

-----------------------------------------------------------------------------
(* _match_known_faces on drawn frames.                                     *)

MaxEncodings == 2

\* distances around the threshold
Distances == (MatchThreshold - 1)..(MatchThreshold + 1)

KnownLists ==
    {<<>>, <<KnownFace("alice", "v1")>>,
     <<KnownFace("alice", "v1"), KnownFace("bob", "v1")>>,
     <<KnownFace("bob", "v1"), KnownFace("alice", "v1")>>}

InitMatch ==
    /\ InitApi /\ InitFace /\ InitBg /\ InitExt /\ InitExp
    /\ relay = IdleRelays /\ sort_in = <<>> /\ sort_out = <<>>
    /\ match_in \in SeqsUpTo([Names -> Distances], MaxEncodings) \X KnownLists
    /\ match_out = None

\* the executor job of async_process_image
CallMatchKnownFaces ==
    /\ IsNone(match_out)
    /\ match_out' = Some(MatchKnownFaces(match_in[1], match_in[2],
                                         MatchThreshold))
    /\ UNCHANGED <<relay, sort_in, sort_out, match_in>>
    /\ UNCHANGED <<apiVars, faceVars, bgVars, expVars, extVars>>

NextMatch == CallMatchKnownFaces

SpecMatch == InitMatch /\ [][NextMatch]_vars

-----------------------------------------------------------------------------
(* Claims about the API client.                                            *)

AuthCount(log) == Cardinality({i \in 1..Len(log) : log[i].kind = "auth"})
OpenCount(log) == Cardinality({i \in 1..Len(log) : log[i].kind = "open"})

\* C1: an async_open_door call entered with an absent or expired CRM token
\* and a valid mobile token sends exactly one CRM authorization request, and
\* an open request only after that authorization was answered successfully;
\* a call entered with a usable CRM token sends no authorization request.
C1_AuthOnceBeforeOpen ==
    \A p \in Callers :
        LET c == call[p] IN
        c.op = "open" =>
            /\ (c.stale /\ c.mob_ok) =>
                  /\ AuthCount(c.log) = 1
                  /\ c.log[1].kind = "auth"
                  /\ \A i \in 1..Len(c.log) :
                        c.log[i].kind = "open" =>
                            i = 2 /\ c.log[1].status = "ok"
            /\ ~c.stale => AuthCount(c.log) = 0

\* witness of C1: a call entered with a stale CRM token has authorized once
\* and then opened the door
C1_Witness ==
    \E p \in Callers :
        /\ call[p].op = "open" /\ call[p].stale /\ call[p].result = "ok"
        /\ Len(call[p].log) = 2
        /\ call[p].log[1].kind = "auth" /\ call[p].log[2].status = "204"

\* C2: when the CRM answers the open request of a call that was entered
\* with a stored, unexpired CRM token with 401, the call reauthorizes once
\* and sends the open request a second time.
C2_ReauthorizeAfter401 ==
    \A p \in Callers :
        LET c == call[p] IN
        (/\ c.op = "open" /\ c.pc = "idle" /\ ~c.stale
         /\ \E i \in 1..Len(c.log) :
                c.log[i].kind = "open" /\ c.log[i].status = "401")
        => /\ AuthCount(c.log) = 1
           /\ OpenCount(c.log) = 2

\* C6: is_expired is true exactly when access_end is set and
\* now >= access_end - TOKEN_EXPIRATION_MARGIN, for both token classes.
C6_IsExpiredFormula ==
    ~IsNone(exp_out) =>
        Val(exp_out) = (/\ ~IsNone(exp_in[2])
                        /\ exp_in[3] >= Val(exp_in[2]) - TOKEN_EXPIRATION_MARGIN)

\* witness of C6: a token read exactly at access_end - margin is expired
C6_Witness ==
    /\ exp_out = Some(TRUE)
    /\ exp_in[3] = Val(exp_in[2]) - TOKEN_EXPIRATION_MARGIN

\* C7: every CRM authorization request was built while the stored mobile
\* token was present and not expired; an operation that needs the CRM
\* authorization while the mobile token is absent or expired ends with an
\* error and has sent nothing.
C7_NoCrmAuthWithoutMobile ==
    \A p \in Callers :
        LET c == call[p] IN
        /\ \A i \in 1..Len(c.log) : c.log[i].kind = "auth" => c.log[i].mobile_ok
        /\ (/\ ~c.mob_ok
            /\ \/ c.op = "auth"
               \/ c.op = "open" /\ c.stale)
           => c.log = <<>> /\ c.pc = "idle" /\ c.result = "error"

\* witness of C7: async_open_door entered with an expired mobile token and
\* no usable CRM token has failed without a request
C7_Witness ==
    \E p \in Callers :
        /\ call[p].op = "open" /\ call[p].stale /\ ~call[p].mob_ok
        /\ ~IsNone(mobile_token)
        /\ call[p].result = "error" /\ call[p].log = <<>>

\* C8: a CRM authorization request carries the stored mobile token in its
\* body and in its Authorization header, also when a CRM token is stored.
C8_MobileTokenTwice ==
    \A p \in Callers :
        \A i \in 1..Len(call[p].log) :
            LET r == call[p].log[i] IN
            (r.kind = "auth" /\ r.status = "pending") =>
                /\ ~IsNone(r.stored_mobile)
                /\ r.body = r.stored_mobile
                /\ r.bearer = r.stored_mobile

\* witness of C8: an authorization request in flight that was built while
\* a CRM token was stored
C8_Witness ==
    \E p \in Callers :
        /\ call[p].pc = "crm_auth"
        /\ ~IsNone(call[p].log[Len(call[p].log)].stored_crm)
        /\ call[p].log[Len(call[p].log)].bearer = Some("m1")

\* C9: one async_open_door call sends at most one authorization request and
\* at most one open request; a rejected open request is the last request of
\* the call, which has then ended with an error.
C9_BoundedRequests ==
    \A p \in Callers :
        LET c == call[p] IN
        c.op = "open" =>
            /\ AuthCount(c.log) <= 1
            /\ OpenCount(c.log) <= 1
            /\ \A i \in 1..Len(c.log) :
                  (c.log[i].kind = "open" /\ c.log[i].status \in {"401", "failed"})
                  => i = Len(c.log) /\ c.pc = "idle" /\ c.result = "error"

\* witness of C9: the open request sent with a fresh CRM token was rejected
C9_Witness ==
    \E p \in Callers :
        /\ call[p].op = "open" /\ call[p].result = "error"
        /\ Len(call[p].log) = 2
        /\ call[p].log[1].status = "ok" /\ call[p].log[2].status = "401"

-----------------------------------------------------------------------------
(* Claims about the face manager.                                          *)

FinalOut == {"cooldown", "opened", "open_failed"}

\* C3: of two frames showing a known face that were processed for one door
\* (no open failing), the ones handed in less than cooldown_seconds apart
\* cause exactly one call of the open callback, the ones handed in more than
\* cooldown_seconds apart cause two.
C3_CooldownCounts ==
    (/\ Len(match_log) = 2
     /\ match_log[1].door = match_log[2].door
     /\ match_log[1].out \in FinalOut \ {"open_failed"}
     /\ match_log[2].out \in FinalOut \ {"open_failed"})
    => LET gap == match_log[2].t - match_log[1].t
           opens == Cardinality({i \in 1..2 : match_log[i].out = "opened"})
       IN  /\ gap < CooldownSeconds => opens = 1
           /\ gap > CooldownSeconds => opens = 2

\* C10: the cooldown timestamp of a door changes only in the step in which
\* an open callback invoked for that door returns without error, and is then
\* the current monotonic time; after a failed open the timestamps are what
\* they were and the door is not in cooldown, so the next match calls the
\* open callback again.
C10_StampOnlyAfterSuccessfulOpen ==
    [][/\ \A m \in Made, d \in Doors :
            door_cooldown'[m][d] # door_cooldown[m][d] =>
                \E c \in FaceCallers :
                    /\ fp[c].pc = "opening" /\ fp[c].door = d
                    /\ fp[c].self = m
                    /\ fp'[c].pc = "idle"
                    /\ match_log'[fp[c].idx].out = "opened"
                    /\ door_cooldown'[m][d] = Some(mono)
       /\ \A c \in FaceCallers :
            (/\ fp[c].pc = "opening" /\ fp'[c].pc = "idle"
             /\ match_log'[fp[c].idx].out = "open_failed")
            => /\ door_cooldown' = door_cooldown
               /\ mono' - DoorLastOpen(door_cooldown'[fp[c].self], fp[c].door)
                      >= CooldownSeconds
      ]_vars

\* witness of C10: after a failed open of a door, a frame handed in less
\* than cooldown_seconds later has opened that door
C10_Witness ==
    /\ Len(match_log) = 2
    /\ match_log[1].door = match_log[2].door
    /\ match_log[1].out = "open_failed" /\ match_log[2].out = "opened"
    /\ match_log[2].t - match_log[1].t < CooldownSeconds
    /\ door_cooldown[FirstManager][match_log[2].door] # None

-----------------------------------------------------------------------------
(* Claims about the background processor.                                  *)

InCycle == {t \in BgTasks : task[t].pc \in {"fetch", "process"}}

\* C4: at most one invocation of _async_process_selected is inside the
\* cycle (fetching or processing a frame) at any time, and it holds the
\* lock; a request that finds the lock held starts no fetch.
C4_SingleFlight ==
    /\ Cardinality(InCycle) <= 1
    /\ InCycle # {} => lock

\* witness of C4: a request was dropped while another cycle is fetching
C4_Witness ==
    /\ skipped /\ lock
    /\ \E t \in BgTasks : task[t].pc = "fetch"
    /\ \E t \in BgTasks : task[t].pc = "idle"

\* C5: a request that arrived while a cycle was running is not lost: while
\* it is outstanding, the cycle is still running or one further cycle has
\* been started for it.
C5_PendingRunHonoured ==
    skipped => (lock \/ \E t \in BgTasks : task[t].pc = "scheduled")

-----------------------------------------------------------------------------
(* Claims about the relay list.                                            *)

\* the key of a relay: entrance_uid lower-cased, mac upper-cased, the
\* opener's relay_id and relay_num
RelayKey(r) ==
    <<IF IsNone(r.entrance_uid) THEN ""
      ELSE IF Val(r.entrance_uid) = "E1" THEN "e1" ELSE Val(r.entrance_uid),
      IF IsNone(r.mac) THEN ""
      ELSE IF Val(r.mac) = "aa" THEN "AA" ELSE Val(r.mac),
      IF IsNone(r.opener) THEN <<>>
      ELSE <<Val(r.opener).relay_id, Val(r.opener).relay_num>> >>

\* the relays received with the answers, own category before shared
RECURSIVE ReceivedFrom(_, _)
ReceivedFrom(answers, k) ==
    IF k > Len(answers) THEN <<>>
    ELSE LET a == answers[k]
             objs == SelectSeq(
                 [i \in 1..Len(a.answer.items) |->
                    [entrance_uid |-> a.answer.items[i].ENTRANCE_UID,
                     mac |-> a.answer.items[i].MAC_ADDR,
                     opener |-> a.answer.items[i].OPENER,
                     raw |-> <<a.is_shared, i>>,
                     dict |-> a.answer.items[i].dict]],
                 LAMBDA x : x.dict)
         IN  [i \in 1..Len(objs) |->
                [entrance_uid |-> objs[i].entrance_uid, mac |-> objs[i].mac,
                 opener |-> objs[i].opener, raw |-> objs[i].raw]]
             \o ReceivedFrom(answers, k + 1)

Received == ReceivedFrom(relay.answers, 1)

\* C11: the list returned by async_get_relays holds no two relays with the
\* same key, and holds exactly the relays that were the first received with
\* their key, own category before shared.
C11_RelaysDeduplicated ==
    relay.pc = "done" =>
        /\ \A i, j \in 1..Len(relay.batches) :
              RelayKey(relay.batches[i]) = RelayKey(relay.batches[j]) => i = j
        /\ \A i \in 1..Len(Received) :
              (\E j \in 1..Len(relay.batches) : relay.batches[j] = Received[i])
              <=> (\A h \in 1..(i - 1) :
                      RelayKey(Received[h]) # RelayKey(Received[i]))

\* witness of C11: both categories sent a relay with the same key, written
\* in different case; the one of the own category was kept
C11_Witness ==
    /\ relay.pc = "done" /\ Len(relay.batches) = 1
    /\ relay.batches[1].raw[1] = 0
    /\ \E i, j \in 1..Len(Received) :
          /\ Received[i].raw[1] = 0 /\ Received[j].raw[1] = 1
          /\ Received[i].entrance_uid # Received[j].entrance_uid
          /\ Received[i].mac # Received[j].mac

\* C12: once a category was requested the call does not raise; when one
\* category failed the returned list holds a relay for every key the other
\* category sent.
C12_OneCategoryMayFail ==
    /\ relay.pc = "error" => relay.answers = <<>>
    /\ (/\ relay.pc = "done" /\ Len(relay.answers) = 2
        /\ \E k \in 1..2 : relay.answers[k].answer.kind # "list")
       => \A i \in 1..Len(Received) :
             \E j \in 1..Len(relay.batches) :
                RelayKey(relay.batches[j]) = RelayKey(Received[i])

\* witness of C12: the own category failed, the shared one sent a relay,
\* and the call returned it
C12_Witness ==
    /\ relay.pc = "done" /\ Len(relay.answers) = 2
    /\ relay.answers[1].answer.kind \in RelayFailures
    /\ relay.answers[2].answer.kind = "list"
    /\ Len(relay.batches) >= 1
    /\ relay.batches[1].raw[1] = 1

-----------------------------------------------------------------------------
(* Claims about the exits of a background cycle, the pruning of the        *)
(* selection and the teardown.                                             *)

\* C13: the lock is held only while an invocation is inside the cycle:
\* whatever way a cycle ended (end of the loop, face manager or doors
\* missing, exception of the frame request), the lock is free afterwards,
\* and a request is dropped as busy only while a cycle is in flight.
C13_LockReleasedOnEveryExit ==
    [][/\ lock' => InCycle' # {}
       /\ \A t \in BgTasks :
            (task'[t] # task[t] /\ task'[t].exit = "busy") => InCycle # {}
      ]_vars

\* witness of C13: a cycle ended by an exception of its frame request and a
\* later cycle is fetching
C13_Witness ==
    \E t, u \in BgTasks :
        /\ task[t].pc = "idle" /\ task[t].exit = "raised"
        /\ task[u].pc = "fetch"

\* the uids an invocation visits in a step, and the doors it lists
VisitedBy(t) ==
    (IF task[t].pc \in {"fetch", "process"} THEN task[t].todo
     ELSE selected_uids) \ task'[t].todo
ListedBy(t) ==
    IF task[t].pc \in {"fetch", "process"} THEN task[t].snap.uids ELSE doors

\* C14: a cycle removes from the selection every visited uid that is not
\* among the doors it listed and requests frames of listed doors only; once
\* the selection is empty and no cycle is in flight, the timer is cancelled;
\* with nothing selected no cycle starts, and the selection gets its first
\* uid again only through async_refresh_from_options, which arms the timer.
C14_UnavailableDoorsPruned ==
    [][/\ \A t \in BgTasks :
            (/\ task'[t] # task[t]
             /\ \/ task'[t].pc = "fetch" /\ task[t].pc # "fetch"
                \/ task'[t].pc = "fetch" /\ task'[t].cur # task[t].cur
                \/ task'[t].exit = "end")
            => /\ \A u \in VisitedBy(t) \ ListedBy(t) : u \notin selected_uids'
               /\ task'[t].pc = "fetch" => task'[t].cur \in ListedBy(t)
       /\ (selected_uids' = {} /\ InCycle' = {}) => ~unsubscribe'
       /\ selected_uids = {} =>
            \A t \in BgTasks :
                task[t].pc \in {"idle", "scheduled"} => task'[t].pc # "fetch"
       /\ (selected_uids = {} /\ selected_uids' # {}) =>
            /\ unsubscribe' /\ task' = task /\ doors' = doors
            /\ selected_uids' \subseteq doors
      ]_vars

\* C15: the teardown of the entry cancels the timer of the processor and
\* leaves the invocations alone, so that a cycle in flight goes on; from
\* then on no invocation that was idle or scheduled requests a frame or
\* hands one to the face manager.
C15_TeardownStopsNewCycles ==
    [][/\ (~torn_down /\ torn_down') =>
            /\ ~unsubscribe'
            /\ \A t \in BgTasks :
                  /\ task'[t].pc = task[t].pc
                  /\ task'[t].todo = task[t].todo
            /\ lock' = lock
       /\ torn_down =>
            \A t \in BgTasks :
                 task[t].pc \in {"idle", "scheduled"} =>
                    task'[t].pc \notin {"fetch", "process"}
      ]_vars

-----------------------------------------------------------------------------
(* Claims about the guards and the headers of the API client.              *)

\* C16: an operation that runs _ensure_mobile_token at its entry ends with
\* an error and without any request when no mobile token is stored or the
\* stored one is expired, and goes on to its request otherwise; the guard
\* leaves both stored tokens as they are, and the stored mobile token
\* changes only in steps of set_mobile_token and async_get_mobile_token,
\* which are no steps of any call.
C16_MobileGuardOnly ==
    [][/\ mobile_token' # mobile_token =>
            /\ call' = call /\ crm_token' = crm_token /\ now' = now
       /\ \A p \in Callers :
            (/\ call[p].pc = "idle" /\ call'[p] # call[p]
             /\ \/ call'[p].op = "auth"
                \/ call'[p].op = "open" /\ ~ObservedValid(crm_token, now))
            => /\ mobile_token' = mobile_token /\ crm_token' = crm_token
               /\ IF ObservedValid(mobile_token, now)
                  THEN /\ call'[p].pc = "crm_auth"
                       /\ Len(call'[p].log) = 1
                  ELSE /\ call'[p].pc = "idle"
                       /\ call'[p].result = "error"
                       /\ call'[p].log = <<>>
      ]_vars

\* witness of C16: a CRM authorization was refused at the guard because the
\* stored mobile token had expired; the token is still stored
C16_Witness ==
    \E p \in Callers :
        /\ call[p].op = "auth" /\ call[p].pc = "idle"
        /\ call[p].result = "error" /\ call[p].log = <<>>
        /\ ~IsNone(mobile_token)
        /\ ~IsNone(Val(mobile_token).access_end)
        /\ ~ObservedValid(mobile_token, now)

-----------------------------------------------------------------------------
(* Claims about _sort_relays.                                              *)

\* the lower-cased address of a relay
LoweredAddress(r) ==
    [i \in 1..Len(r.address) |->
        IF r.address[i] \in 65..90 THEN r.address[i] + 32 ELSE r.address[i]]

\* C17: the result of _sort_relays holds the relays of the input, each
\* once; every main relay stands before every non-main relay; of two relays
\* of the same kind the one with the smaller lower-cased address stands
\* first, and two with equal lower-cased addresses keep their input order.
C17_MainFirstThenByAddress ==
    ~IsNone(sort_out) =>
        LET out == Val(sort_out)
        IN  /\ Len(out) = Len(sort_in)
            /\ \A i \in 1..Len(sort_in) : \E j \in 1..Len(out) : out[j] = sort_in[i]
            /\ \A i, j \in 1..Len(out) :
                 i < j =>
                    /\ out[j].is_main => out[i].is_main
                    /\ out[i].is_main = out[j].is_main =>
                          /\ ~StrLess(LoweredAddress(out[j]), LoweredAddress(out[i]))
                          /\ LoweredAddress(out[i]) = LoweredAddress(out[j])
                                => out[i].raw < out[j].raw

\* witness of C17: the main relay came last and "B" came before "a"; the
\* result is main, "a", "B"
C17_Witness ==
    /\ ~IsNone(sort_out)
    /\ Len(sort_in) = 3
    /\ ~sort_in[1].is_main /\ sort_in[1].address = <<66>>
    /\ ~sort_in[2].is_main /\ sort_in[2].address = <<97>>
    /\ sort_in[3].is_main
    /\ Val(sort_out) = <<sort_in[3], sort_in[2], sort_in[1]>>

-----------------------------------------------------------------------------
(* Claims about _match_known_faces.                                        *)

\* the distances of the faces of the frame to the known faces
FrameDistances ==
    {<<match_in[2][k].name, match_in[1][i][match_in[2][k].name]>> :
        i \in 1..Len(match_in[1]), k \in 1..Len(match_in[2])}

\* C18: _match_known_faces returns a name whose distance to a face of the
\* frame is the smallest of all distances when that distance is within the
\* threshold, and None when every distance is above the threshold or there
\* is no distance at all (no face in the frame).
C18_ClosestWithinThreshold ==
    ~IsNone(match_out) =>
        LET result == Val(match_out)
            within == {p \in FrameDistances : p[2] <= MatchThreshold}
        IN  IF within = {} THEN IsNone(result)
            ELSE /\ ~IsNone(result)
                 /\ \E p \in within :
                       /\ p[1] = Val(result)
                       /\ \A q \in FrameDistances : p[2] <= q[2]

\* witness of C18: the first face of the frame is bob at the threshold, the
\* second is alice below it: alice is returned
C18_Witness ==
    /\ ~IsNone(match_out)
    /\ Len(match_in[1]) = 2 /\ Len(match_in[2]) = 2
    /\ match_in[1][1]["bob"] = MatchThreshold
    /\ match_in[1][1]["alice"] > MatchThreshold
    /\ match_in[1][2]["alice"] < MatchThreshold
    /\ match_in[1][2]["bob"] > MatchThreshold
    /\ Val(match_out) = Some("alice")

-----------------------------------------------------------------------------
(* Claims about the face manager without its library.                      *)

\* C19: while the face library is unavailable, every call of
\* async_process_image returns at its first test, normally: it starts no
\* matching, calls no open callback and leaves the cooldown timestamps and
\* the record of matches as they are, whatever door, image and callback; a
\* background cycle that hands a frame to it does not count the door as
\* failed and goes on: it requests the frame of its next door or ends
\* normally, releasing the lock.
C19_LibraryUnavailableNoOp ==
    [][~library_available =>
          /\ door_cooldown' = door_cooldown
          /\ match_log' = match_log
          /\ \A c \in FaceCallers :
                /\ fp'[c].pc = "idle"
                /\ fp'[c] # fp[c] => fp'[c].exit = "library"
          /\ \A t \in BgTasks, img \in Images, cb \in BOOLEAN :
                FetchDone(t, "frame", img, cb) =>
                   /\ fp'[BgCaller].exit = "library"
                   /\ task'[t].hist.failed = task[t].hist.failed
                   /\ \/ task'[t].pc = "fetch"
                      \/ /\ task'[t].pc = "idle" /\ task'[t].exit = "end"
                         /\ ~lock'
      ]_vars

\* witness of C19: without the library a call of the camera entity has
\* returned and a background cycle that got the frames of both doors has
\* ended normally; a face is known, nothing was opened
C19_Witness ==
    /\ ~library_available /\ known_faces[FirstManager] # <<>>
    /\ fp["camera"].exit = "library" /\ fp[BgCaller].exit = "library"
    /\ \E t \in BgTasks :
          /\ task[t].pc = "idle" /\ task[t].exit = "end"
          /\ task[t].hist.fetched = BgDoors /\ task[t].hist.failed = {}
    /\ ~lock /\ match_log = <<>>
    /\ \A d \in Doors : IsNone(door_cooldown[FirstManager][d])


\* C20: every open request, at the moment it is handed to the session,
\* carries an Authorization header; its token is the one of the CRM token
\* stored in the client at that moment, and not the mobile token's (where
\* the two differ).
C20_OpenCarriesCrmBearer ==
    \A p \in Callers :
        \A i \in 1..Len(call[p].log) :
            LET r == call[p].log[i]
            IN  (r.kind = "open" /\ r.status = "pending") =>
                    /\ ~IsNone(r.bearer)
                    /\ ~IsNone(r.stored_crm)
                    /\ r.bearer = r.stored_crm
                    /\ r.stored_mobile # r.stored_crm
                          => r.bearer # r.stored_mobile

\* witness of C20: an open request that follows the authorization of its own
\* call is in flight with the new CRM token, a mobile token being stored
C20_Witness ==
    \E p \in Callers :
        /\ call[p].pc = "open" /\ Len(call[p].log) = 2
        /\ call[p].log[2].kind = "open"
        /\ call[p].log[2].bearer = Some("c1")
        /\ call[p].log[2].stored_mobile = Some("m1")
        /\ crm_token # None /\ Val(crm_token).token = "c1"

-----------------------------------------------------------------------------
(* Claims about the endpoint of the open request and about transport       *)
(* failures.                                                               *)

\* C21: a finished async_open_door call that was entered with a usable CRM
\* token has sent one open request, to the open link when one was passed
\* and to /api/open/{mac}/{door_id} otherwise, and has returned normally
\* when the CRM answered that request with 204.
C21_OpenGoesToLinkOrEndpoint ==
    \A p \in Callers :
        LET c == call[p] IN
        (c.op \in {"open", "open_link"} /\ c.pc = "idle" /\ ~c.stale) =>
            /\ OpenCount(c.log) = 1
            /\ \A i \in 1..Len(c.log) :
                  c.log[i].kind = "open" =>
                      /\ c.log[i].url = IF IsNone(c.link) THEN OpenEndpoint
                                        ELSE Val(c.link)
                      /\ c.log[i].status = "204" => c.result = "ok"

\* C22: a request that timed out has been answered to its caller like one
\* that hit a connection failure: _request raised the network-error
\* IntersvyazApiError for it, it is the last request of its call and the
\* only one of its kind, and the call has ended with an error.
C22_TimeoutIsNetworkError ==
    \A p \in Callers :
        LET c == call[p] IN
        \A i \in 1..Len(c.log) :
            c.log[i].answer.cause \in {"timeout", "neterr"} =>
                /\ c.log[i].raised = "network"
                /\ c.log[i].status = "failed"
                /\ i = Len(c.log)
                /\ c.pc = "idle" /\ c.result = "error"
                /\ \A j \in 1..Len(c.log) :
                      c.log[j].kind = c.log[i].kind => j = i

\* witness of C22: the open request of a call timed out after the call had
\* authorized; the call has ended with the error
C22_Witness ==
    \E p \in Callers :
        /\ call[p].op = "open" /\ call[p].result = "error"
        /\ Len(call[p].log) = 2
        /\ call[p].log[1].status = "ok"
        /\ call[p].log[2].kind = "open"
        /\ call[p].log[2].answer.cause = "timeout"

-----------------------------------------------------------------------------
(* Claims about the list of known faces.                                   *)

UniqueNames(faces) ==
    \A i, j \in 1..Len(faces) : faces[i].name = faces[j].name => i = j

\* C23: the list of known faces of a manager never holds two entries of one
\* name; an add that succeeded leaves exactly one entry of its name in the
\* list of its manager, holding the new encoding, and the entries of the
\* other names as they were, and the options hold that list; a removal of a
\* name that is not in the list
\* ends with an error and leaves the list unchanged, as does every add that
\* ended with an error.
C23_OneEntryPerName ==
    /\ [](\A m \in Made : UniqueNames(known_faces[m]))
    /\ [][\A o \in FaceOps :
            (face_op'[o] # face_op[o] /\ face_op'[o].pc = "idle") =>
                LET c == face_op'[o]
                    before == known_faces[c.self]
                    after == known_faces'[c.self]
                    others(faces) ==
                        {faces[i] : i \in {k \in 1..Len(faces) :
                                              faces[k].name # c.name}}
                    named(faces) ==
                        {i \in 1..Len(faces) : faces[i].name = c.name}
                IN  /\ (c.kind = "add" /\ c.result = "ok") =>
                          /\ Cardinality(named(after)) = 1
                          /\ \A i \in named(after) :
                                after[i].encoding = Val(c.image.encoding)
                          /\ others(after) = others(before)
                          /\ stored_faces' = StoreFaces(after)
                    /\ c.result = "error" => after = before
                    /\ (c.kind = "remove" /\ named(before) = {}) =>
                          c.result = "error"
                    /\ (c.kind = "remove" /\ named(before) # {}) =>
                          /\ c.result = "ok"
                          /\ named(after) = {}
                          /\ others(after) = others(before)
         ]_vars

\* witness of C23: an add of a name that was in the list has replaced its
\* encoding, the other name is still there
C23_Witness ==
    /\ \E o \in FaceOps :
          /\ face_op[o].kind = "add" /\ face_op[o].result = "ok"
          /\ face_op[o].existed
          /\ face_op[o].image.encoding = Some("v2")
          /\ \E i \in 1..Len(known_faces[face_op[o].self]) :
                known_faces[face_op[o].self][i] = KnownFace(face_op[o].name, "v2")
          /\ Len(known_faces[face_op[o].self]) = 2

-----------------------------------------------------------------------------
(* Claims about concurrent calls of async_open_door.                       *)

\* the CRM tokens the authorizations of the calls have returned
IssuedTokens ==
    {call[q].issued : q \in {r \in Callers : ~IsNone(call[r].issued)}}

\* C24: of two async_open_door calls that were both entered while the CRM
\* token was absent or expired, each sends at most one authorization
\* request; every open request is sent with the token of a CRM token that
\* one of these authorizations returned; and when both calls have ended and
\* a token was returned, the stored CRM token is one of the returned ones.
C24_ConcurrentReauthorization ==
    (\A p \in Callers : call[p].op = "open" /\ call[p].stale) =>
        /\ \A p \in Callers : AuthCount(call[p].log) <= 1
        /\ \A p \in Callers :
              \A i \in 1..Len(call[p].log) :
                  LET r == call[p].log[i]
                  IN  (r.kind = "open" /\ r.status = "pending") =>
                          \E tok \in IssuedTokens :
                              r.bearer = Some(Val(tok).token)
        /\ ((\A p \in Callers : call[p].pc = "idle") /\ IssuedTokens # {})
              => crm_token \in IssuedTokens

\* witness of C24: both calls were entered with a stale CRM token, each has
\* authorized and opened; the two authorizations returned different tokens
C24_Witness ==
    /\ \A p \in Callers :
          /\ call[p].op = "open" /\ call[p].stale /\ call[p].result = "ok"
          /\ AuthCount(call[p].log) = 1
    /\ Val(call["a"].issued).token # Val(call["b"].issued).token
    /\ crm_token = call["a"].issued

-----------------------------------------------------------------------------
(* Claims about the door button.                                           *)

Opening == {q \in Pressers : press[q].pc = "opening"}

\* C25: at most one invocation of async_press is awaiting the open callable
\* of the button; the open callable has been called once for each accepted
\* press; a press that finds the button busy returns without calling the
\* open callable and without touching the status.
C25_OneOpenCallPerAcceptedPress ==
    /\ [](/\ Cardinality(Opening) <= 1
          /\ button.calls = button.accepted)
    /\ [][\A q \in Pressers :
            (press[q].pc = "idle" /\ press'[q] # press[q]) =>
                IF button.busy
                THEN /\ press'[q] = [pc |-> "idle", result |-> "ignored"]
                     /\ button' = button
                ELSE /\ press'[q].pc = "opening"
                     /\ button'.calls = button.calls + 1
                     /\ button'.accepted = button.accepted + 1
         ]_vars

\* C26: a press that was accepted leads to the button being ready again,
\* with busy = false and available = true; the status becomes ready only
\* when the reset task fires (or the entity is removed), not when the open
\* callable answers; when the open callable raises, the button shows error,
\* stays busy, and the press raises to its caller.
C26_ButtonReturnsToReady ==
    /\ \A q \in Pressers :
          (press[q].pc = "opening") ~>
              (button.status = "ready" /\ ~button.busy /\ button.available)
    /\ [][/\ \A q \in Pressers, outcome \in {"api_error", "exception"} :
               AsyncPressDone(q, outcome) =>
                  /\ button'.status = "error" /\ button'.busy
                  /\ ~button'.available
                  /\ press'[q].result = "raised"
          /\ \A q \in Pressers :
               AsyncPressDone(q, "ok") =>
                  /\ button'.status = "opened" /\ button'.busy
                  /\ ~button'.available
                  /\ press'[q].result = "ok"
          /\ (button.status # "ready" /\ button'.status = "ready") =>
               /\ button.reset = "sleeping" \/ AsyncWillRemoveFromHass
               /\ ~button'.busy /\ button'.available
         ]_vars

\* witness of C26: the press has raised, the reset task has fired and the
\* button is ready again
C26_Witness ==
    /\ \E q \in Pressers : press[q].result = "raised"
    /\ Opening = {}
    /\ button.status = "ready" /\ ~button.busy /\ button.available
    /\ button.reset = "none" /\ ~button.removed /\ button.accepted = 1

-----------------------------------------------------------------------------
(* Claims about the open callable of a door.                               *)

\* the tokens of the client are in the configuration of the entry
TokensPersisted ==
    /\ entry_data.mobile = mobile_token
    /\ ~IsNone(crm_token) => entry_data.crm = crm_token

\* C27 as stated: an invocation of the open callable that ends has called
\* the open operation of the API client once; when that returned, the
\* configuration of the entry holds the tokens of the client; when it
\* raised, nothing was persisted and the invocation has raised.
C27_PersistAfterEverySuccess ==
    [][\A k \in Openers, outcome \in ApiOutcomes :
          (/\ opener[k].pc = "opening" /\ opener'[k].pc = "idle"
           /\ \E ct \in SetupTokens : AsyncOpenDoorDone(k, outcome, ct))
          => /\ opener'[k].api_calls = 1
             /\ IF outcome = "ok"
                THEN /\ opener'[k].result = "ok"
                     /\ TokensPersisted'
                ELSE /\ opener'[k].result = "raised"
                     /\ opener'[k].persisted = 0
                     /\ entry_data' = entry_data
      ]_vars

\* C27, amended: an invocation of the open callable that ends has called
\* the open operation of the API client once; when that returned,
\* _persist_tokens has run once: with the store of the entry in hass.data
\* the configuration of the entry holds the tokens of the client
\* afterwards, and with the store removed (the entry was unloaded) the
\* configuration and hass.data are what they were; when the open operation
\* raised, _persist_tokens has not run, the configuration is what it was,
\* and the invocation has raised.
C27_PersistOnlyAfterSuccess ==
    [][\A k \in Openers, outcome \in ApiOutcomes :
          (/\ opener[k].pc = "opening" /\ opener'[k].pc = "idle"
           /\ \E ct \in SetupTokens : AsyncOpenDoorDone(k, outcome, ct))
          => /\ opener'[k].api_calls = 1
             /\ IF outcome = "ok"
                THEN /\ opener'[k].result = "ok"
                     /\ opener'[k].persisted = 1
                     /\ IF IsNone(door_store)
                        THEN /\ entry_data' = entry_data
                             /\ door_config' = door_config
                             /\ IsNone(door_store')
                        ELSE TokensPersisted'
                ELSE /\ opener'[k].result = "raised"
                     /\ opener'[k].persisted = 0
                     /\ entry_data' = entry_data
                     /\ door_config' = door_config
                     /\ door_store' = door_store
      ]_vars

\* witness of C27: the client got a new CRM token during an open that
\* succeeded with the entry loaded, and the configuration holds it; another
\* open succeeded after the entry was unloaded and its token was not
\* persisted
C27_Witness ==
    /\ \A k \in Openers : opener[k].result = "ok" /\ opener[k].persisted = 1
    /\ ~entry_loaded /\ IsNone(door_store)
    /\ ~IsNone(crm_token) /\ Val(crm_token).token = "c1"
    /\ ~IsNone(entry_data.crm) /\ Val(entry_data.crm).token = "c2"

-----------------------------------------------------------------------------
(* Claims about the open_door service.                                     *)

\* C28: a call for an unknown entry, or with a door_uid (not empty) that no
\* door of the entry has, ends with an error and calls no open callable; a
\* call with the door_uid of a door calls the open callable of that door
\* and no other; a call without door_uid (or with an empty one) for an
\* entry with doors calls the open callable of the first main door, or of
\* the first door when none is main.
C28_ServiceOpensRequestedDoor ==
    ~IsNone(svc_out) =>
        LET out == Val(svc_out)
            openers == svc_in.door_openers
            uids == {openers[i].uid : i \in 1..Len(openers)}
            given == svc_in.door_uid \notin {None, Some("")}
            mains == {i \in 1..Len(openers) : openers[i].is_main}
        IN  /\ ~svc_in.entry_known =>
                  out.result = "no_entry" /\ out.opened = <<>>
            /\ (svc_in.entry_known /\ given) =>
                  IF Val(svc_in.door_uid) \in uids
                  THEN out.opened = <<Val(svc_in.door_uid)>>
                  ELSE out.result = "no_door" /\ out.opened = <<>>
            /\ (svc_in.entry_known /\ ~given /\ openers # <<>>) =>
                  /\ Len(out.opened) = 1
                  /\ \E i \in 1..Len(openers) :
                        /\ openers[i].uid = out.opened[1]
                        /\ IF mains = {} THEN i = 1
                           ELSE i \in mains /\ \A j \in mains : i <= j

\* witness of C28: a call without door_uid for an entry whose second door is
\* the main one has opened that door
C28_Witness ==
    /\ ~IsNone(svc_out) /\ svc_in.entry_known /\ svc_in.door_uid = None
    /\ Len(svc_in.door_openers) = 2
    /\ ~svc_in.door_openers[1].is_main /\ svc_in.door_openers[2].is_main
    /\ Val(svc_out).result = "ok"
    /\ Val(svc_out).opened = <<svc_in.door_openers[2].uid>>

-----------------------------------------------------------------------------
(* Claims about concurrent calls of the face manager.                      *)

-----------------------------------------------------------------------------
(* Claims about a failed CRM authorization.                                *)

\* the answer to an authorization request is a 2xx JSON payload that
\* _parse_crm_token converts without raising
CompletelyParsed(answer) ==
    /\ answer.cause = "json"
    /\ Val(answer.payload).TOKEN # Some("")
    /\ Val(answer.payload).USER_ID # "bad"

\* C30: the step that ends a CRM authorization leaves the stored mobile token
\* unchanged; when the answer is a network error, a timeout, a status >= 400
\* or a body that does not parse, it leaves the stored CRM token unchanged as
\* well and the call ends with an error; when the answer parses completely
\* the stored CRM token becomes the token of that answer; and no other step
\* of a call changes the stored CRM token.
C30_FailedAuthorizationKeepsTokens ==
    [][/\ \A p \in Callers :
            (call[p].pc = "crm_auth" /\ call'[p].pc # "crm_auth") =>
                LET answer == call'[p].log[Len(call[p].log)].answer
                IN  /\ mobile_token' = mobile_token
                    /\ ~CompletelyParsed(answer) =>
                          /\ crm_token' = crm_token
                          /\ call'[p].pc = "idle" /\ call'[p].result = "error"
                    /\ CompletelyParsed(answer) =>
                          crm_token' =
                            Some([token |-> PyStr(Val(answer.payload).TOKEN),
                                  access_end |->
                                      Val(answer.payload).ACCESS_END])
       /\ (crm_token' # crm_token /\ call' # call) =>
             \E p \in Callers :
                /\ call[p].pc = "crm_auth" /\ call'[p].pc # "crm_auth"
                /\ CompletelyParsed(call'[p].log[Len(call[p].log)].answer)
      ]_vars

\* witness of C30: an authorization has failed on a body that is not JSON
\* and a CRM token is stored
C30_Witness ==
    \E p \in Callers :
        /\ call[p].op = "auth" /\ call[p].pc = "idle"
        /\ call[p].result = "error"
        /\ Len(call[p].log) = 1
        /\ call[p].log[1].answer.cause = "bad_json"
        /\ ~IsNone(crm_token) /\ ~IsNone(mobile_token)

-----------------------------------------------------------------------------
(* Claims about the mobile token as the session of the client.             *)

\* C31: every open request was handed to the session while the stored
\* mobile token was present and not expired, and an async_open_door call
\* entered without such a mobile token has ended with an error and without
\* any request (as long as the call runs no open request is in its log).
C31_NoOpenWithoutMobileToken ==
    \A p \in Callers :
        LET c == call[p] IN
        /\ \A i \in 1..Len(c.log) : c.log[i].kind = "open" => c.log[i].mobile_ok
        /\ (c.op = "open" /\ ~c.mob_ok) =>
              /\ c.log = <<>>
              /\ c.pc = "idle" => c.result = "error"

\* C32: an answer to the CRM authorization request that is a 2xx JSON
\* payload without a TOKEN field (the empty body included) ends the call
\* with an error and leaves the stored CRM token as it was; the token string
\* a call stores is a TOKEN value of the server.
C32_AnswerWithoutTokenRejected ==
    [][\A p \in Callers :
          (call[p].pc = "crm_auth" /\ call'[p].pc # "crm_auth") =>
              LET answer == call'[p].log[Len(call[p].log)].answer
              IN  /\ (answer.cause = "json" /\ IsNone(Val(answer.payload).TOKEN))
                        => /\ crm_token' = crm_token
                           /\ call'[p].pc = "idle"
                           /\ call'[p].result = "error"
                  /\ crm_token' # crm_token =>
                        Val(crm_token').token \in CrmTokens
      ]_vars

-----------------------------------------------------------------------------
(* Claims about the first match of a door.                                 *)

\* C33: a frame showing a known face is held back by the cooldown only for
\* a door that has been opened automatically before: the door of every
\* match that returned at the cooldown test has a cooldown timestamp.
C33_FirstMatchNotHeldBack ==
    \A i \in 1..Len(match_log) :
        match_log[i].out = "cooldown" =>
            ~IsNone(door_cooldown[FirstManager][match_log[i].door])

-----------------------------------------------------------------------------
(* Claims about failures inside a background cycle.                        *)

\* C34: a cycle that ran to the end of its loop has requested the frame of
\* every selected door that was listed when the loop began and still had an
\* image_url when the loop came to it, whichever of those doors failed at
\* the frame request (no frame: another status, a network error, a timeout)
\* or in the processing of the frame.
C34_FailureDoesNotStopCycle ==
    \A t \in BgTasks :
        /\ task[t].exit = "end" =>
              /\ task[t].hist.fetched \cup task[t].hist.no_url
                    = task[t].hist.start
              /\ task[t].hist.failed \subseteq task[t].hist.fetched
        /\ task[t].pc \in {"fetch", "process"} =>
              /\ task[t].hist.failed \subseteq task[t].hist.fetched
              /\ task[t].hist.fetched \cup task[t].hist.no_url
                    \cup (task[t].todo \cap task[t].snap.uids)
                    = task[t].hist.start

\* witness of C34: a cycle over two doors has ended after both doors had
\* failed; the second was fetched after the failure of the first
C34_Witness ==
    \E t \in BgTasks :
        /\ task[t].exit = "end"
        /\ task[t].hist.start = BgDoors
        /\ task[t].hist.failed = BgDoors
        /\ task[t].hist.fetched = BgDoors

-----------------------------------------------------------------------------
(* Claims about the door entries.                                          *)

\* the optional string holds a MAC: it is present and not blank
HasMac(o) == ~IsNone(o) /\ MacStrip(Val(o)) # ""

\* C37: _build_door_entry_payload returns no entry exactly when the relay has
\* no MAC at top level and none in its opener; otherwise the entry carries
\* the top-level MAC when there is one, else the opener's, upper-cased, and
\* its door id is the opener's relay number when present, else the porch
\* number read as an integer, else 1.
C37_PayloadMacAndDoorId ==
    build_out # <<>> =>
        LET r == build_in[1]
            out == build_out[1]
            opener_mac == IF IsNone(r.opener) THEN None ELSE Val(r.opener).mac
            relay_num == IF IsNone(r.opener) THEN None
                         ELSE Val(r.opener).relay_num
        IN  /\ IsNone(out) <=> (~HasMac(r.mac) /\ ~HasMac(opener_mac))
            /\ ~IsNone(out) =>
                  /\ Val(out).mac = MacUpper(IF HasMac(r.mac) THEN Val(r.mac)
                                             ELSE Val(opener_mac))
                  /\ Val(out).door_id =
                        IF ~IsNone(relay_num) THEN Val(relay_num)
                        ELSE IF r.porch_num = Some("3") THEN 3
                        ELSE 1

\* the uids of a door list
UidsOf(door_openers) == {door_openers[i].uid : i \in 1..Len(door_openers)}

\* C36: while the entry is set up its door list is not empty and holds no
\* uid twice; a setup that succeeded after the relay fetch failed, or gave no
\* relay with a MAC, has stored exactly one door: the fallback door with the
\* MAC (upper-cased), the door id and the link of the stored configuration,
\* marked as the main door.
C36_DoorListAfterSetup ==
    /\ [](~IsNone(door_store) =>
            LET door_openers == Val(door_store).door_openers
            IN  /\ door_openers # <<>>
                /\ Cardinality(UidsOf(door_openers)) = Len(door_openers))
    /\ [][(door_job.pc = "setup_fetch" /\ door_job'.result = "ok") =>
            LET fetched == door_job'.fetched
                no_mac == \/ IsNone(fetched)
                          \/ \A i \in 1..Len(Val(fetched)) :
                                ~HasMac(Val(fetched)[i].mac)
                door_openers == Val(door_store').door_openers
            IN  /\ ~IsNone(door_store')
                /\ no_mac =>
                      /\ Len(door_openers) = 1
                      /\ door_openers[1].is_main
                      /\ door_openers[1].mac =
                            (IF IsNone(door_config.mac) THEN ""
                             ELSE MacUpper(Val(door_config.mac)))
                      /\ Some(door_openers[1].door_id) =
                            (IF ~IsNone(door_config.relay_num)
                             THEN door_config.relay_num ELSE Some(3))
                      /\ door_openers[1].open_link = door_config.open_link
                /\ ~no_mac => \A i \in 1..Len(door_openers) :
                                 door_openers[i].mac # ""
          ]_vars

\* witness of C36: a setup whose relay fetch failed has stored the fallback
\* door of a configuration that holds a MAC
C36_Witness ==
    /\ door_job.op = "setup" /\ door_job.pc = "idle" /\ door_job.result = "ok"
    /\ IsNone(door_job.fetched)
    /\ ~IsNone(door_store)
    /\ Len(Val(door_store).door_openers) = 1
    /\ Val(door_store).door_openers[1].mac = "AA:01"

\* the uids computed for the relays of a fetch
FetchedUids(fetched) ==
    IF IsNone(fetched) THEN {}
    ELSE {Val(BuildDoorEntryPayload(EntryId, Val(fetched)[i], 1)).uid :
            i \in {k \in 1..Len(Val(fetched)) :
                     ~IsNone(BuildDoorEntryPayload(EntryId, Val(fetched)[k], 1))}}

\* C35: the step that ends a door-link refresh keeps the length of the door
\* list and the uid and the callback of every entry; an entry whose uid is
\* not the uid of a fetched relay keeps all its fields, and an entry that
\* changed has taken the MAC, main flag and link of a fetched relay of its
\* uid; when the fetch failed the list and the stored configuration are
\* what they were.
C35_RefreshUpdatesInPlace ==
    [][(door_job.pc = "refresh_fetch" /\ door_job'.pc = "idle"
        /\ ~IsNone(door_store)) =>
          LET before == Val(door_store).door_openers
              fetched == door_job'.fetched
          IN  /\ ~IsNone(door_store')
              /\ Len(Val(door_store').door_openers) = Len(before)
              /\ \A i \in 1..Len(before) :
                    LET old == before[i]
                        new == Val(door_store').door_openers[i]
                    IN  /\ new.uid = old.uid /\ new.callback = old.callback
                        /\ old.uid \notin FetchedUids(fetched) => new = old
                        /\ new # old =>
                              \E k \in 1..Len(Val(fetched)) :
                                 LET r == Val(fetched)[k]
                                 IN  /\ HasMac(r.mac)
                                     /\ new.mac = MacUpper(Val(r.mac))
                                     /\ new.is_main = r.is_main
                                     /\ new.open_link = r.open_link
              /\ IsNone(fetched) =>
                    door_store' = door_store /\ door_config' = door_config
      ]_vars

\* witness of C35: a refresh has given the only door of the list another
\* link, and its fetch held a relay with a MAC that is not in the list
C35_Witness ==
    /\ door_job.op = "refresh" /\ door_job.pc = "idle"
    /\ door_job.result = "ok" /\ ~IsNone(door_store)
    /\ Len(Val(door_store).door_openers) = 1
    /\ Val(door_store).door_openers[1].uid = <<EntryId, "door", "aa01", 1>>
    /\ Val(door_store).door_openers[1].open_link = Some("l2")
    /\ door_config.open_link = Some("l2")
    /\ Len(Val(door_job.fetched)) = 2
    /\ \E k \in 1..2 : Val(door_job.fetched)[k].mac = Some("bb02")

-----------------------------------------------------------------------------
(* background.py: one invocation of _async_process_selected over three     *)
(* doors, so that a cycle can visit a door after the selection was         *)
(* replaced during an earlier frame request.                               *)

BgDoorsWide == {"d1", "d2", "d3"}

NextBgWide ==
    \/ TimerTick("t1")
    \/ TaskStart("t1")
    \/ AsyncForceCycle("t1")
    \/ \E outcome \in FetchOutcomes, img \in QuietFrames :
          FetchDone("t1", outcome, img, TRUE)
    \/ ProcessMatchDone("t1")
    \/ AsyncStop
    \/ Teardown
    \/ \E option \in {None} \cup {Some(S) : S \in SUBSET BgDoorsWide} :
          AsyncRefreshFromOptions(option)
    \/ \E available \in SUBSET BgDoorsWide : DoorsReplaced(available)
    \/ /\ known_faces[FirstManager] # <<>>
       /\ AsyncRemoveKnownFace(FirstManager, "o1", "alice")
    \/ /\ known_faces[FirstManager] = <<>>
       /\ AsyncAddKnownFace(FirstManager, "o1", "alice", FirstFace)
    \/ AddEncodingDone("o1")

SpecBgWide == InitCycle /\ [][NextBgWide]_vars

\* no method of DoorBackgroundProcessor is executing: every invocation of
\* _async_process_selected has returned or has not started yet
NoMethodExecuting ==
    \A t \in BgTasks : task[t].pc \in {"idle", "scheduled"}

\* C38: whenever no method of DoorBackgroundProcessor is executing, the
\* timer is armed exactly when the set of selected doors is non-empty.
C38_TimerArmedIffSelected ==
    NoMethodExecuting => (unsubscribe <=> selected_uids # {})

-----------------------------------------------------------------------------
(* __init__.py, face_manager.py: the operations of a loaded entry that are *)
(* in flight while async_unload_entry removes its store.                   *)

\* the stored configuration after a setup that made the fallback door
LoadedConfig ==
    [mac |-> Some("AA:01"), relay_num |-> Some(2), entrance |-> None,
     address |-> Some(<<1044>>), open_link |-> None]

\* async_unload_entry: domain_store.pop(entry.entry_id, None)
UnloadEntry ==
    /\ entry_loaded /\ ~IsNone(door_store)
    /\ entry_loaded' = FALSE
    /\ door_store' = None
    /\ UNCHANGED <<opener, entry_data, build_in, build_out, door_config,
                   door_job>>
    /\ UNCHANGED <<kfVars, btnVars, svcVars>>
    /\ UNCHANGED <<apiVars, faceVars, bgVars, expVars, relVars>>

\* the entry is set up: its store is in hass.data, nothing is in flight
InitUnload ==
    /\ now = 0
    /\ mobile_token = Some([token |-> "m1", access_end |-> None])
    /\ crm_token = None
    /\ call = [p \in Callers |-> IdleCall]
    /\ InitBg /\ InitExp /\ InitRel /\ InitBtn /\ InitSvc
    /\ mono = 0
    /\ library_available = TRUE
    /\ door_cooldown = OfFirst(NoCooldown)
    /\ fp = [c \in FaceCallers |-> IdleFp]
    /\ match_log = <<>>
    /\ stored_faces \in {<<>>, <<AsDict(KnownFace("alice", "v1"))>>}
    /\ known_faces = OfFirst(LoadKnownFacesFromEntry(stored_faces, 1))
    /\ face_lock = OfFirst(FALSE)
    /\ face_op = [o \in FaceOps |-> IdleFaceOp]
    /\ opener = [k \in Openers |-> IdleOpener]
    /\ entry_data = [mobile |-> mobile_token, crm |-> crm_token]
    /\ entry_loaded = TRUE
    /\ build_in = <<>> /\ build_out = <<>>
    /\ door_config = LoadedConfig
    /\ door_store =
          Some([StoreOf(<<FallbackEntry(LoadedConfig)>>,
                        ConfigData(entry_data, LoadedConfig)) EXCEPT
                   !.face_manager = Some(FirstManager)])
    /\ door_job = IdleJob

\* what async_get_relays gives a refresh here: an error, or at most one relay
UnloadFetches == {None} \cup {Some(q) : q \in SeqsUpTo(SetupRelays, 1)}

\* Operations start while the entry is loaded; the ones that are in flight
\* go on after the unload.
NextUnload ==
    \/ entry_loaded /\ AsyncOpenDoor("k1")
    \/ \E outcome \in ApiOutcomes,
          ct \in {crm_token} \cup (SetupTokens \ {None}) :
          AsyncOpenDoorDone("k1", outcome, ct)
    \/ RefreshStart
    \/ \E fetched \in UnloadFetches : RefreshDone(fetched)
    \/ \E o \in FaceOps :
          /\ entry_loaded
          /\ AsyncAddKnownFace(FirstManager, o, "alice",
                               [empty |-> FALSE, encoding |-> Some("v1")])
    \/ \E o \in FaceOps : AddEncodingDone(o)
    \/ \E o \in FaceOps :
          entry_loaded /\ AsyncRemoveKnownFace(FirstManager, o, "alice")
    \/ \E o \in FaceOps : FaceLockAcquired(o)
    \/ UnloadEntry

SpecUnload == InitUnload /\ [][NextUnload]_vars

-----------------------------------------------------------------------------
(* The open callable of a door, invoked by the button, the service or a    *)
(* background cycle; a cycle in flight may invoke it after the entry was   *)
(* unloaded.  async_setup_entry has restored the tokens of the             *)
(* configuration into the client.                                          *)

InitCallable ==
    /\ now = 0
    /\ mobile_token = Some([token |-> "m1", access_end |-> None])
    /\ crm_token \in SetupTokens
    /\ call = [p \in Callers |-> IdleCall]
    /\ InitFace /\ InitBg /\ InitExp /\ InitRel
    /\ InitKf /\ InitBtn /\ InitSvc
    /\ opener = [k \in Openers |-> IdleOpener]
    /\ entry_data = [mobile |-> mobile_token, crm |-> crm_token]
    /\ entry_loaded = TRUE
    /\ build_in = <<>> /\ build_out = <<>>
    /\ door_config = LoadedConfig
    /\ door_store =
          Some([StoreOf(<<FallbackEntry(LoadedConfig)>>,
                        ConfigData(entry_data, LoadedConfig)) EXCEPT
                   !.face_manager = Some(FirstManager)])
    /\ door_job = IdleJob

NextCallable ==
    \/ \E k \in Openers : AsyncOpenDoor(k)
    \/ \E k \in Openers, outcome \in ApiOutcomes,
          ct \in {crm_token} \cup (SetupTokens \ {None}) :
          AsyncOpenDoorDone(k, outcome, ct)
    \/ UnloadEntry
    \/ /\ entry_loaded
       /\ AsyncAddKnownFace(FirstManager, "o1", "alice",
                            [empty |-> FALSE, encoding |-> Some("v1")])
    \/ AddEncodingDone("o1")

SpecCallable == InitCallable /\ [][NextCallable]_vars

\* C39: once async_unload_entry has removed the store of the entry, no
\* operation that was in flight (token persist, door-link refresh, saving of
\* the known faces) puts the entry into hass.data again.
C39_StoreStaysRemoved ==
    [][(~entry_loaded /\ IsNone(door_store)) => IsNone(door_store')]_vars

-----------------------------------------------------------------------------
(* Claims about the status a door button publishes.                        *)

\* C40: after every status change of a door button its state attributes
\* (status code, label, busy flag, update time, error text) equal the
\* payload stored for the door in the shared statuses, which is the payload
\* sent through the dispatcher; an error text is there only while the status
\* is error.
C40_AttributesEqualStoredPayload ==
    /\ button.attributes = button.stored
    /\ button.stored = button.sent
    /\ ~IsNone(button.attributes.error) =>
          button.attributes.status_code = "error"
    /\ ~IsNone(button.stored.error) => button.stored.status_code = "error"

====
